---------------------------- MODULE Spec2Model ----------------------------
(***************************************************************************)
(* Geocoding-to-price pipeline of the logistics application:                *)
(*   geocoding.py               address resolution and geometric routes     *)
(*   services/booking_service.py  routing API client and tariff chain       *)
(*   app.py                     /api/geocode, /api/calculate-route,         *)
(*                              /api/calculate-price                        *)
(*                                                                         *)
(* Text is a sequence of one-character strings, so that lower(), title(),   *)
(* strip(), replace(), split()/join() and the "in" substring test are       *)
(* computed character by character as Python computes them.                 *)
(* Coordinates are integers in 1e-4 degree, money is in 1/100 naira,        *)
(* multipliers are in 1/100, the insurance rate is in 1/10000.              *)
(***************************************************************************)
EXTENDS Integers, Sequences, FiniteSets, TLC

(***************************************************************************)
(* Python str helpers                                                       *)
(***************************************************************************)

\* F applied to the value of v (v is evaluated once and then passed on)
Apply(v, F(_)) == CHOOSE r \in {F(x) : x \in {v}} : TRUE

\* None (absent dict key, failed lookup)
None == <<"None">>

UpperOf ==
  [c \in {"a","b","c","d","e","f","g","h","i","j","k","l","m","n","o","p",
          "q","r","s","t","u","v","w","x","y","z"} |->
     CASE c = "a" -> "A" [] c = "b" -> "B" [] c = "c" -> "C" [] c = "d" -> "D"
       [] c = "e" -> "E" [] c = "f" -> "F" [] c = "g" -> "G" [] c = "h" -> "H"
       [] c = "i" -> "I" [] c = "j" -> "J" [] c = "k" -> "K" [] c = "l" -> "L"
       [] c = "m" -> "M" [] c = "n" -> "N" [] c = "o" -> "O" [] c = "p" -> "P"
       [] c = "q" -> "Q" [] c = "r" -> "R" [] c = "s" -> "S" [] c = "t" -> "T"
       [] c = "u" -> "U" [] c = "v" -> "V" [] c = "w" -> "W" [] c = "x" -> "X"
       [] c = "y" -> "Y" [] c = "z" -> "Z"]

LowerLetters == DOMAIN UpperOf

UpperLetters == {UpperOf[c] : c \in LowerLetters}

IsLetter(c) == c \in LowerLetters \/ c \in UpperLetters

\* str.lower() on one character
LowerChar(c) ==
  IF c \in UpperLetters THEN CHOOSE l \in LowerLetters : UpperOf[l] = c ELSE c

\* str.upper() on one character
UpperChar(c) == IF c \in LowerLetters THEN UpperOf[c] ELSE c

\* str.lower()
lower(s) == [i \in 1..Len(s) |-> LowerChar(s[i])]

\* str.title(): a letter is upper-cased when it follows a non-letter (or
\* starts the string) and lower-cased otherwise
title(s) ==
  [i \in 1..Len(s) |->
     IF i = 1 \/ ~IsLetter(s[i-1]) THEN UpperChar(s[i]) ELSE LowerChar(s[i])]

\* str.lstrip(): s from its first character that is not a blank
lstrip(s) ==
  LET inked == {i \in 1..Len(s) : s[i] # " "}
  IN IF inked = {} THEN <<>>
     ELSE SubSeq(s, CHOOSE i \in inked : \A j \in inked : i <= j, Len(s))

\* str.rstrip(): s up to its last character that is not a blank
rstrip(s) ==
  LET inked == {i \in 1..Len(s) : s[i] # " "}
  IN IF inked = {} THEN <<>>
     ELSE SubSeq(s, 1, CHOOSE i \in inked : \A j \in inked : i >= j)

\* str.strip()
strip(s) == Apply(s, LAMBDA v : Apply(rstrip(v), LAMBDA w : lstrip(w)))

\* old occurs in s at position i
OccursAt(s, old, i) ==
  /\ i + Len(old) - 1 <= Len(s)
  /\ SubSeq(s, i, i + Len(old) - 1) = old

\* the positions at which str.replace takes old out of s: the scan runs left
\* to right and resumes behind an occurrence it has taken, so an occurrence
\* is taken exactly when no taken occurrence reaches into it
replaced_at(s, old) ==
  LET occurs == {i \in 1..Len(s) : OccursAt(s, old, i)}
  IN CHOOSE taken \in SUBSET occurs :
       \A i \in occurs :
         i \in taken <=> ~\E j \in taken : j < i /\ i < j + Len(old)

\* str.replace(old, new) for a non-empty old: new stands for every
\* occurrence taken, every character outside them stays
replace(s, old, new) ==
  LET taken == replaced_at(s, old)
      kept == {i \in 1..Len(s) : ~\E j \in taken : j <= i /\ i < j + Len(old)}
      piece == [i \in 1..Len(s) |->
                  IF i \in taken THEN new
                  ELSE IF i \in kept THEN <<s[i]>> ELSE <<>>]
      before == [i \in 1..Len(s) |->
                   Cardinality({j \in kept : j < i})
                     + Len(new) * Cardinality({j \in taken : j < i})]
  IN IF taken = {} THEN s
     ELSE [k \in 1..(Cardinality(kept) + Len(new) * Cardinality(taken)) |->
             LET i == CHOOSE i \in 1..Len(s) :
                        before[i] < k /\ k <= before[i] + Len(piece[i])
             IN piece[i][k - before[i]]]

\* the text of s at the positions keep, in order
at_positions(s, keep) ==
  [k \in 1..Cardinality(keep) |->
     s[CHOOSE i \in keep : Cardinality({j \in keep : j <= i}) = k]]

\* ' '.join(s.split()): runs of blanks become one blank, none at the ends
join_split(s) ==
  Apply(s, LAMBDA v :
    Apply(at_positions(v, {i \in 1..Len(v) :
                             ~(v[i] = " " /\ i > 1 /\ v[i-1] = " ")}),
          LAMBDA w : strip(w)))

\* Python "sub in s"
contains(s, sub) == \E i \in 1..(Len(s) - Len(sub) + 1) : OccursAt(s, sub, i)

(***************************************************************************)
(* geocoding.py                                                             *)
(***************************************************************************)

NIGERIAN_LOCATIONS ==
  <<
    [name |-> <<"k","u","b","w","a">>, lat |-> 91167, lng |-> 73833, city |-> <<"A","b","u","j","a">>],
    [name |-> <<"c","h","i","k","a","k","o","r","e">>, lat |-> 91200, lng |-> 73700, city |-> <<"A","b","u","j","a">>],
    [name |-> <<"l","i","f","e","c","a","m","p">>, lat |-> 90820, lng |-> 74010, city |-> <<"A","b","u","j","a">>],
    [name |-> <<"l","i","f","e"," ","c","a","m","p">>, lat |-> 90820, lng |-> 74010, city |-> <<"A","b","u","j","a">>],
    [name |-> <<"j","u","l","i","u","s"," ","b","e","r","g","e","r">>, lat |-> 90800, lng |-> 74000, city |-> <<"A","b","u","j","a">>],
    [name |-> <<"g","w","a","r","i","n","p","a">>, lat |-> 90833, lng |-> 74167, city |-> <<"A","b","u","j","a">>],
    [name |-> <<"w","u","s","e">>, lat |-> 90765, lng |-> 74897, city |-> <<"A","b","u","j","a">>],
    [name |-> <<"w","u","s","e"," ","2">>, lat |-> 90780, lng |-> 74750, city |-> <<"A","b","u","j","a">>],
    [name |-> <<"m","a","i","t","a","m","a">>, lat |-> 90833, lng |-> 75000, city |-> <<"A","b","u","j","a">>],
    [name |-> <<"a","s","o","k","o","r","o">>, lat |-> 90422, lng |-> 75256, city |-> <<"A","b","u","j","a">>],
    [name |-> <<"g","a","r","k","i">>, lat |-> 90167, lng |-> 74833, city |-> <<"A","b","u","j","a">>],
    [name |-> <<"g","a","r","k","i"," ","2">>, lat |-> 90200, lng |-> 74900, city |-> <<"A","b","u","j","a">>],
    [name |-> <<"j","a","b","i">>, lat |-> 90667, lng |-> 74333, city |-> <<"A","b","u","j","a">>],
    [name |-> <<"u","t","a","k","o">>, lat |-> 90736, lng |-> 74392, city |-> <<"A","b","u","j","a">>],
    [name |-> <<"l","u","g","b","e">>, lat |-> 89833, lng |-> 73833, city |-> <<"A","b","u","j","a">>],
    [name |-> <<"n","y","a","n","y","a">>, lat |-> 90167, lng |-> 75667, city |-> <<"A","b","u","j","a">>],
    [name |-> <<"k","a","r","u">>, lat |-> 90333, lng |-> 76167, city |-> <<"A","b","u","j","a">>],
    [name |-> <<"m","p","a","p","e">>, lat |-> 91167, lng |-> 74833, city |-> <<"A","b","u","j","a">>],
    [name |-> <<"d","u","t","s","e">>, lat |-> 90667, lng |-> 75000, city |-> <<"A","b","u","j","a">>],
    [name |-> <<"b","w","a","r","i">>, lat |-> 92833, lng |-> 73833, city |-> <<"A","b","u","j","a">>],
    [name |-> <<"g","w","a","g","w","a","l","a","d","a">>, lat |-> 89500, lng |-> 70833, city |-> <<"A","b","u","j","a">>],
    [name |-> <<"a","i","r","p","o","r","t"," ","r","o","a","d">>, lat |-> 90500, lng |-> 74500, city |-> <<"A","b","u","j","a">>],
    [name |-> <<"c","e","n","t","r","a","l"," ","a","r","e","a">>, lat |-> 90578, lng |-> 74951, city |-> <<"A","b","u","j","a">>],
    [name |-> <<"a","r","e","a"," ","1">>, lat |-> 90400, lng |-> 74800, city |-> <<"A","b","u","j","a">>],
    [name |-> <<"a","r","e","a"," ","3">>, lat |-> 90450, lng |-> 74850, city |-> <<"A","b","u","j","a">>],
    [name |-> <<"a","r","e","a"," ","1","1">>, lat |-> 90550, lng |-> 74700, city |-> <<"A","b","u","j","a">>],
    [name |-> <<"k","a","d","o">>, lat |-> 90900, lng |-> 74600, city |-> <<"A","b","u","j","a">>],
    [name |-> <<"d","a","w","a","k","i">>, lat |-> 91100, lng |-> 74800, city |-> <<"A","b","u","j","a">>],
    [name |-> <<"k","a","t","a","m","p","e">>, lat |-> 90950, lng |-> 74300, city |-> <<"A","b","u","j","a">>],
    [name |-> <<"l","o","k","o","g","o","m","a">>, lat |-> 89700, lng |-> 74200, city |-> <<"A","b","u","j","a">>],
    [name |-> <<"a","p","o">>, lat |-> 90000, lng |-> 75100, city |-> <<"A","b","u","j","a">>],
    [name |-> <<"d","u","r","u","m","i">>, lat |-> 90100, lng |-> 74600, city |-> <<"A","b","u","j","a">>],
    [name |-> <<"g","u","d","u">>, lat |-> 90050, lng |-> 74800, city |-> <<"A","b","u","j","a">>],
    [name |-> <<"w","u","y","e">>, lat |-> 90800, lng |-> 74600, city |-> <<"A","b","u","j","a">>],
    [name |-> <<"i","k","e","j","a">>, lat |-> 66018, lng |-> 33515, city |-> <<"L","a","g","o","s">>],
    [name |-> <<"v","i","c","t","o","r","i","a"," ","i","s","l","a","n","d">>, lat |-> 64281, lng |-> 34219, city |-> <<"L","a","g","o","s">>],
    [name |-> <<"v","i">>, lat |-> 64281, lng |-> 34219, city |-> <<"L","a","g","o","s">>],
    [name |-> <<"l","e","k","k","i">>, lat |-> 64698, lng |-> 35852, city |-> <<"L","a","g","o","s">>],
    [name |-> <<"i","k","o","y","i">>, lat |-> 64549, lng |-> 34367, city |-> <<"L","a","g","o","s">>],
    [name |-> <<"y","a","b","a">>, lat |-> 65095, lng |-> 33711, city |-> <<"L","a","g","o","s">>],
    [name |-> <<"s","u","r","u","l","e","r","e">>, lat |-> 65059, lng |-> 33509, city |-> <<"L","a","g","o","s">>],
    [name |-> <<"m","a","r","y","l","a","n","d">>, lat |-> 65714, lng |-> 33633, city |-> <<"L","a","g","o","s">>],
    [name |-> <<"a","j","a","h">>, lat |-> 64667, lng |-> 36000, city |-> <<"L","a","g","o","s">>],
    [name |-> <<"o","s","h","o","d","i">>, lat |-> 65333, lng |-> 33333, city |-> <<"L","a","g","o","s">>],
    [name |-> <<"a","p","a","p","a">>, lat |-> 64500, lng |-> 33667, city |-> <<"L","a","g","o","s">>],
    [name |-> <<"f","e","s","t","a","c">>, lat |-> 64667, lng |-> 32833, city |-> <<"L","a","g","o","s">>],
    [name |-> <<"m","a","r","i","n","a">>, lat |-> 64500, lng |-> 34000, city |-> <<"L","a","g","o","s">>],
    [name |-> <<"o","j","u","e","l","e","g","b","a">>, lat |-> 65167, lng |-> 33667, city |-> <<"L","a","g","o","s">>],
    [name |-> <<"m","u","s","h","i","n">>, lat |-> 65333, lng |-> 33500, city |-> <<"L","a","g","o","s">>],
    [name |-> <<"a","g","e","g","e">>, lat |-> 66167, lng |-> 33167, city |-> <<"L","a","g","o","s">>],
    [name |-> <<"o","g","b","a">>, lat |-> 66167, lng |-> 33333, city |-> <<"L","a","g","o","s">>],
    [name |-> <<"b","e","r","g","e","r">>, lat |-> 66000, lng |-> 33500, city |-> <<"L","a","g","o","s">>],
    [name |-> <<"i","y","a","n","a"," ","i","p","a","j","a">>, lat |-> 66167, lng |-> 32667, city |-> <<"L","a","g","o","s">>],
    [name |-> <<"a","l","i","m","o","s","h","o">>, lat |-> 66167, lng |-> 32500, city |-> <<"L","a","g","o","s">>],
    [name |-> <<"p","o","r","t"," ","h","a","r","c","o","u","r","t">>, lat |-> 48156, lng |-> 70498, city |-> <<"P","o","r","t"," ","H","a","r","c","o","u","r","t">>],
    [name |-> <<"t","r","a","n","s"," ","a","m","a","d","i">>, lat |-> 48000, lng |-> 70333, city |-> <<"P","o","r","t"," ","H","a","r","c","o","u","r","t">>],
    [name |-> <<"r","u","m","u","o","k","o","r","o">>, lat |-> 48500, lng |-> 70167, city |-> <<"P","o","r","t"," ","H","a","r","c","o","u","r","t">>],
    [name |-> <<"r","u","m","u","o","l","a">>, lat |-> 48333, lng |-> 70333, city |-> <<"P","o","r","t"," ","H","a","r","c","o","u","r","t">>],
    [name |-> <<"g","r","a"," ","p","o","r","t"," ","h","a","r","c","o","u","r","t">>, lat |-> 48167, lng |-> 70167, city |-> <<"P","o","r","t"," ","H","a","r","c","o","u","r","t">>],
    [name |-> <<"k","a","n","o">>, lat |-> 120022, lng |-> 85920, city |-> <<"K","a","n","o">>],
    [name |-> <<"s","a","b","o","n"," ","g","a","r","i"," ","k","a","n","o">>, lat |-> 119833, lng |-> 85333, city |-> <<"K","a","n","o">>],
    [name |-> <<"i","b","a","d","a","n">>, lat |-> 73775, lng |-> 39470, city |-> <<"I","b","a","d","a","n">>],
    [name |-> <<"b","o","d","i","j","a">>, lat |-> 74167, lng |-> 39000, city |-> <<"I","b","a","d","a","n">>],
    [name |-> <<"c","h","a","l","l","e","n","g","e">>, lat |-> 73667, lng |-> 39167, city |-> <<"I","b","a","d","a","n">>],
    [name |-> <<"u","i">>, lat |-> 74500, lng |-> 39000, city |-> <<"I","b","a","d","a","n">>],
    [name |-> <<"e","n","u","g","u">>, lat |-> 64584, lng |-> 75464, city |-> <<"E","n","u","g","u">>],
    [name |-> <<"i","n","d","e","p","e","n","d","e","n","c","e"," ","l","a","y","o","u","t">>, lat |-> 64500, lng |-> 75000, city |-> <<"E","n","u","g","u">>],
    [name |-> <<"k","a","d","u","n","a">>, lat |-> 105222, lng |-> 74383, city |-> <<"K","a","d","u","n","a">>],
    [name |-> <<"b","e","n","i","n"," ","c","i","t","y">>, lat |-> 63350, lng |-> 56037, city |-> <<"B","e","n","i","n"," ","C","i","t","y">>],
    [name |-> <<"w","a","r","r","i">>, lat |-> 55167, lng |-> 57500, city |-> <<"W","a","r","r","i">>],
    [name |-> <<"c","a","l","a","b","a","r">>, lat |-> 49517, lng |-> 83220, city |-> <<"C","a","l","a","b","a","r">>],
    [name |-> <<"j","o","s">>, lat |-> 98965, lng |-> 88583, city |-> <<"J","o","s">>],
    [name |-> <<"m","a","i","d","u","g","u","r","i">>, lat |-> 118333, lng |-> 131500, city |-> <<"M","a","i","d","u","g","u","r","i">>],
    [name |-> <<"o","w","e","r","r","i">>, lat |-> 54833, lng |-> 70333, city |-> <<"O","w","e","r","r","i">>],
    [name |-> <<"u","y","o">>, lat |-> 50500, lng |-> 79333, city |-> <<"U","y","o">>],
    [name |-> <<"a","k","u","r","e">>, lat |-> 72500, lng |-> 51950, city |-> <<"A","k","u","r","e">>],
    [name |-> <<"a","b","e","o","k","u","t","a">>, lat |-> 71608, lng |-> 33483, city |-> <<"A","b","e","o","k","u","t","a">>],
    [name |-> <<"i","l","o","r","i","n">>, lat |-> 84799, lng |-> 45418, city |-> <<"I","l","o","r","i","n">>],
    [name |-> <<"l","o","k","o","j","a">>, lat |-> 78000, lng |-> 67333, city |-> <<"L","o","k","o","j","a">>],
    [name |-> <<"s","o","k","o","t","o">>, lat |-> 130622, lng |-> 52339, city |-> <<"S","o","k","o","t","o">>],
    [name |-> <<"z","a","r","i","a">>, lat |-> 110667, lng |-> 77000, city |-> <<"Z","a","r","i","a">>]
  >>

remove_words ==
  << <<"s","t","r","e","e","t">>,
     <<"r","o","a","d">>,
     <<"a","v","e","n","u","e">>,
     <<"c","l","o","s","e">>,
     <<"c","r","e","s","c","e","n","t">>,
     <<"d","r","i","v","e">>,
     <<"e","s","t","a","t","e">>,
     <<"l","a","y","o","u","t">>,
     <<"p","h","a","s","e">>,
     <<"e","x","t","e","n","s","i","o","n">>,
     <<"e","x","t">>,
     <<"n","i","g","e","r","i","a">>,
     <<"f","c","t">>,
     <<"s","t","a","t","e">>,
     <<",">>,
     <<".">>,
     <<"-">>,
     <<"n","e","a","r">>,
     <<"o","p","p","o","s","i","t","e">>,
     <<"b","e","s","i","d","e">>,
     <<"b","e","h","i","n","d">>,
     <<"a","f","t","e","r">>,
     <<"b","e","f","o","r","e">>,
     <<"j","u","n","c","t","i","o","n">>,
     <<"b","u","s"," ","s","t","o","p">> >>
\* the loop "for word in remove_words: normalized = normalized.replace(word,
\* ' ')" over the words lo..hi, in order: first the words of the lower half
\* of the range, then, on the result, those of the upper half
RECURSIVE strip_words(_, _, _)
strip_words(s, lo, hi) ==
  IF lo = hi THEN replace(s, remove_words[lo], <<" ">>)
  ELSE LET mid == (lo + hi) \div 2
       IN Apply(strip_words(s, lo, mid), LAMBDA v : strip_words(v, mid + 1, hi))

\* normalize_address
normalize_address(address) ==
  LET normalized == Apply(strip(lower(address)), LAMBDA v : strip_words(v, 1, Len(remove_words)))
  IN join_split(normalized)

GeoNone ==
  [found |-> FALSE, latitude |-> 0, longitude |-> 0,
   formatted_address |-> <<>>, city |-> None, match_type |-> "none",
   matched_term |-> None, is_approximate |-> FALSE]

\* index of the last gazetteer entry whose name occurs in text
last_location_in(text) ==
  LET hits == {k \in 1..Len(NIGERIAN_LOCATIONS) :
                 contains(text, NIGERIAN_LOCATIONS[k].name)}
  IN IF hits = {} THEN 0
     ELSE CHOOSE k \in hits : \A j \in hits : k >= j

\* index of the first gazetteer entry, in iteration order, whose name occurs
\* in text; 0 when there is none
first_location_in(text) ==
  LET hits == {k \in 1..Len(NIGERIAN_LOCATIONS) :
                 contains(text, NIGERIAN_LOCATIONS[k].name)}
  IN IF hits = {} THEN 0
     ELSE CHOOSE k \in hits : \A j \in hits : k <= j

\* find_known_location
find_known_location(address) ==
  LET k == Apply(normalize_address(address), first_location_in)
  IN IF k = 0 THEN GeoNone
     ELSE LET coords == NIGERIAN_LOCATIONS[k]
          IN [found |-> TRUE,
              latitude |-> coords.lat,
              longitude |-> coords.lng,
              formatted_address |->
                title(coords.name) \o <<",", " ">> \o coords.city
                  \o <<",", " ", "N", "i", "g", "e", "r", "i", "a">>,
              city |-> coords.city,
              match_type |-> "known_location",
              matched_term |-> coords.name,
              is_approximate |-> FALSE]

(***************************************************************************)
(* Outcome of one HTTP request to the Nominatim service, chosen by the      *)
(* environment:                                                             *)
(*   "ok"         status 200, results[0] = place                            *)
(*   "empty"      status 200, results = []                                  *)
(*   "http_error" status other than 200                                     *)
(*   "exception"  requests.get raised (timeout, connection error) or the    *)
(*                body was malformed (response.json() / float() raised)     *)
(***************************************************************************)
NoPlace == [lat |-> 0, lon |-> 0, display_name |-> None]

NominatimPlaces ==
  { [lat |-> 90579, lon |-> 74951,
     display_name |-> <<"A","b","u","j","a",","," ","N","i","g","e","r","i","a">>],
    [lat |-> 65244, lon |-> 33792, display_name |-> None] }

NominatimOutcomes ==
  {[kind |-> "ok", place |-> p] : p \in NominatimPlaces}
    \cup {[kind |-> k, place |-> NoPlace] : k \in {"empty", "http_error", "exception"}}

\* the time.sleep(1.1) of geocode_with_nominatim, in ticks of 0.05 s
NominatimSleepTicks == 22

\* how long a request to Nominatim may take, in ticks (the timeout is 10 s)
NominatimLatencies == {2, 24}

nominatim_hit(location, address, match_type) ==
  [found |-> TRUE,
   latitude |-> location.lat,
   longitude |-> location.lon,
   formatted_address |->
     IF location.display_name = None THEN address ELSE location.display_name,
   city |-> None,
   match_type |-> match_type,
   matched_term |-> None,
   is_approximate |-> FALSE]

\* geocode_with_nominatim when the two requests, if sent, get the outcomes
\* raw and simplified and take latency[1] and latency[2]; q2 is the query of
\* the second request.  requests lists the queries sent, in order, each with
\* the answer it got and the time it was sent at, counted from the call;
\* elapsed is the time the call took.
nominatim_run(address, q2, raw, simplified, latency) ==
  LET r1 == [q |-> address, kind |-> "nominatim_raw", answer |-> raw.kind,
             at |-> NominatimSleepTicks]
      r2 == [q |-> q2, kind |-> "nominatim_simplified",
             answer |-> simplified.kind,
             at |-> NominatimSleepTicks + latency[1]]
      elapsed1 == NominatimSleepTicks + latency[1]
      elapsed2 == elapsed1 + latency[2]
  IN CASE raw.kind = "exception" ->
            [result |-> GeoNone, requests |-> <<r1>>, elapsed |-> elapsed1]
       [] raw.kind = "ok" ->
            [result |-> nominatim_hit(raw.place, address, "nominatim"),
             requests |-> <<r1>>, elapsed |-> elapsed1]
       [] simplified.kind = "exception" ->
            [result |-> GeoNone, requests |-> <<r1, r2>>, elapsed |-> elapsed2]
       [] simplified.kind = "ok" ->
            [result |-> nominatim_hit(simplified.place, address,
                                      "nominatim_simplified"),
             requests |-> <<r1, r2>>, elapsed |-> elapsed2]
       [] OTHER ->
            [result |-> GeoNone, requests |-> <<r1, r2>>, elapsed |-> elapsed2]

\* geocode_with_nominatim: the returns the service's answers allow
geocode_with_nominatim(address) ==
  LET q2 == normalize_address(address)
              \o <<",", " ", "N", "i", "g", "e", "r", "i", "a">>
  IN UNION { { nominatim_run(address, q, raw, simplified, latency) :
                 raw \in NominatimOutcomes, simplified \in NominatimOutcomes,
                 latency \in [1..2 -> NominatimLatencies] }
             : q \in {q2} }

\* the final fallback of geocode_address
city_fallback(address) ==
  LET k == Apply(lower(address), first_location_in)
  IN IF k = 0 THEN GeoNone
     ELSE LET coords == NIGERIAN_LOCATIONS[k]
          IN [found |-> TRUE,
              latitude |-> coords.lat,
              longitude |-> coords.lng,
              formatted_address |->
                address
                  \o <<" ", "(", "a", "p", "p", "r", "o", "x", "i", "m", "a",
                       "t", "e", ":", " ">>
                  \o title(coords.name) \o <<")">>,
              city |-> None,
              match_type |-> "city_fallback",
              matched_term |-> None,
              is_approximate |-> TRUE]

\* geocode_address after the known-location lookup found nothing, for one
\* return of geocode_with_nominatim and the value of the final fallback
geocode_online(nominatim, fallback) ==
  LET nominatim_steps ==
        [i \in 1..Len(nominatim.requests) |-> nominatim.requests[i].kind]
  IN IF nominatim.result.found
     THEN [result |-> nominatim.result,
           steps |-> <<"known_location">> \o nominatim_steps,
           requests |-> nominatim.requests,
           elapsed |-> nominatim.elapsed]
     ELSE [result |-> fallback,
           steps |-> <<"known_location">> \o nominatim_steps
                       \o <<"city_fallback">>,
           requests |-> nominatim.requests,
           elapsed |-> nominatim.elapsed]

\* geocode_address: the possible returns.  result is the dict returned
\* (GeoNone for None), steps the strategies run, in order, requests the
\* Nominatim queries sent and elapsed the time the call took.
geocode_address(address0) ==
  IF address0 = <<>> \/ Len(strip(address0)) < 3
  THEN {[result |-> GeoNone, steps |-> <<>>, requests |-> <<>>, elapsed |-> 0]}
  ELSE Apply(strip(address0), LAMBDA address :
         Apply(find_known_location(address), LAMBDA known_result :
           IF known_result.found
           THEN {[result |-> known_result,
                  steps |-> <<"known_location">>,
                  requests |-> <<>>, elapsed |-> 0]}
           ELSE { geocode_online(nominatim, fallback) :
                    nominatim \in geocode_with_nominatim(address),
                    fallback \in {city_fallback(address)} }))

(***************************************************************************)
(* Numbers.  Python floats are modelled in fixed point; round(x, n) is      *)
(* Python's round-half-to-even.                                             *)
(***************************************************************************)

abs(x) == IF x < 0 THEN -x ELSE x

\* round(num / den) to the nearest integer, ties to even (den > 0)
round_div(num, den) ==
  LET q == num \div den
      r == num % den
  IN IF 2 * r > den THEN q + 1
     ELSE IF 2 * r < den THEN q
     ELSE IF q % 2 = 0 THEN q ELSE q + 1

RECURSIVE isqrt_between(_, _, _)
isqrt_between(n, lo, hi) ==
  IF lo >= hi THEN lo
  ELSE LET mid == (lo + hi + 1) \div 2
       IN IF mid * mid <= n THEN isqrt_between(n, mid, hi)
          ELSE isqrt_between(n, lo, mid - 1)

\* math.sqrt, rounded down to an integer
isqrt(n) == isqrt_between(n, 0, 46340)

\* math.cos of a latitude given in 1e-4 degree, result in 1e-4
\* (x - x^3/6.. series of cos up to x^4; |lat| < 15 degrees here)
cos_e4(lat) ==
  LET x == (lat * 1745) \div 1000000
      x2 == (x * x) \div 10000
  IN 10000 - (x2 \div 2) + ((x2 * x2) \div 240000)

\* sqrt(north^2 + east^2) in metres without leaving 32 bits
hypot(north, east) ==
  LET m == IF north > east THEN north ELSE east
      s == IF m < 30000 THEN 1 ELSE IF m < 300000 THEN 10 ELSE 100
  IN s * isqrt((north \div s) * (north \div s) + (east \div s) * (east \div s))

\* calculate_distance: haversine distance in metres with R = 6371 km.
\* One 1e-4 degree of arc is 11.12 m.  For the distances inside the country
\* c = 2*atan2(sqrt(a), sqrt(1-a)) is evaluated as 2*sqrt(a) and sin(d/2) as
\* d/2, so R*c = R*sqrt(dlat^2 + cos(lat1)*cos(lat2)*dlon^2).
calculate_distance(lat1, lon1, lat2, lon2) ==
  LET dlat == abs(lat2 - lat1)
      dlon == abs(lon2 - lon1)
      cc == isqrt(cos_e4(lat1) * cos_e4(lat2))
      north == (dlat * 1112) \div 100
      east == (((dlon * cc) \div 10000) * 1112) \div 100
  IN hypot(north, east)

RouteModes == {"driving", "walking", "bicycling"}

\* speeds that do not tell city traffic from highway
avg_speed_kmh_one_driving_speed(mode, is_same_city) ==
  CASE mode = "driving" -> 35
    [] mode = "walking" -> 5
    [] mode = "bicycling" -> 15
    [] OTHER -> 35

\* speed_kmh.get(mode, 35)
avg_speed_kmh(mode, is_same_city) ==
  CASE mode = "driving" -> IF is_same_city THEN 35 ELSE 60
    [] mode = "walking" -> 5
    [] mode = "bicycling" -> 15
    [] OTHER -> 35

\* the error returns of calculate_route, without the error text
RouteNone ==
  [success |-> FALSE, error |-> "none",
   driving_distance_km |-> 0, straight_distance_km |-> 0,
   duration_seconds |-> 0,
   origin_coords |-> <<0, 0>>, destination_coords |-> <<0, 0>>,
   origin_address |-> <<>>, destination_address |-> <<>>,
   origin_match_type |-> "none", destination_match_type |-> "none",
   mode |-> "none", is_same_city |-> FALSE, base_price |-> 0]

\* is_same_city of calculate_route
same_city(origin_geo, dest_geo) == origin_geo.city = dest_geo.city

\* an estimate with the two multipliers exchanged
estimate_driving_distance_exchanged(straight_distance, is_same_city) ==
  straight_distance * (IF is_same_city THEN 125 ELSE 130)

\* the driving distance calculate_route estimates from the straight-line
\* distance (metres), in 1/100 metre
estimate_driving_distance(straight_distance, is_same_city) ==
  straight_distance * (IF is_same_city THEN 130 ELSE 125)

\* the estimate calculate_route returns for two resolved addresses
route_estimate(origin_geo, dest_geo, mode) ==
  LET straight_distance ==
        calculate_distance(origin_geo.latitude, origin_geo.longitude,
                           dest_geo.latitude, dest_geo.longitude)
      is_same_city == same_city(origin_geo, dest_geo)
      driving_distance == estimate_driving_distance(straight_distance, is_same_city)
      speed == avg_speed_kmh(mode, is_same_city)
  IN [success |-> TRUE, error |-> "none",
      driving_distance_km |-> round_div(driving_distance, 10000),
      straight_distance_km |-> round_div(straight_distance, 100),
      duration_seconds |-> (driving_distance * 9) \div (250 * speed),
      origin_coords |-> <<origin_geo.latitude, origin_geo.longitude>>,
      destination_coords |-> <<dest_geo.latitude, dest_geo.longitude>>,
      origin_address |-> origin_geo.formatted_address,
      destination_address |-> dest_geo.formatted_address,
      origin_match_type |-> origin_geo.match_type,
      destination_match_type |-> dest_geo.match_type,
      mode |-> mode, is_same_city |-> is_same_city, base_price |-> 0]

\* a calculate_route that does not check the destination's resolution
route_between_unchecked_destination(origin_geo, dest_geo, mode) ==
  IF ~origin_geo.found THEN [RouteNone EXCEPT !.error = "origin"]
  ELSE route_estimate(origin_geo, dest_geo, mode)

\* calculate_route once both addresses went through geocode_address
route_between(origin_geo, dest_geo, mode) ==
  IF ~origin_geo.found THEN [RouteNone EXCEPT !.error = "origin"]
  ELSE IF ~dest_geo.found THEN [RouteNone EXCEPT !.error = "destination"]
  ELSE route_estimate(origin_geo, dest_geo, mode)

\* the requests of a call that started at time by
delay_requests(requests, by) ==
  [i \in 1..Len(requests) |-> [requests[i] EXCEPT !.at = @ + by]]

\* calculate_route: the possible returns.  Distances of the result are in
\* 1/10 km (round(x, 1)); the *_text display strings are left out.  resolved
\* lists the resolutions run, in order, with what each returned.
calculate_route(origin, destination, mode) ==
  { [result |-> route_between(origin_call.result, dest_call.result, mode),
     resolved |-> <<[field |-> "origin", geo |-> origin_call.result],
                    [field |-> "destination", geo |-> dest_call.result]>>,
     requests |-> origin_call.requests
                    \o delay_requests(dest_call.requests, origin_call.elapsed)] :
      origin_call \in geocode_address(origin),
      dest_call \in geocode_address(destination) }

(***************************************************************************)
(* Tariff configuration.  Money fields are in 1/100 naira, multipliers in   *)
(* 1/100, insurance_rate in 1/10000.                                        *)
(***************************************************************************)

\* config.py, class Config: the defaults of the pricing settings
ConfigDefaults ==
  [price_per_km |-> 20000, minimum_price |-> 50000,
   weight_surcharge_per_kg |-> 5000, heavy_surcharge_per_kg |-> 10000,
   insurance_rate |-> 200,
   express_multiplier |-> 150, standard_multiplier |-> 100,
   economy_multiplier |-> 80,
   signature_fee |-> 20000]

\* models.py, PricingConfig: the column defaults
PricingConfigDefaults ==
  [price_per_km |-> 20000, minimum_price |-> 50000,
   weight_surcharge_per_kg |-> 150, heavy_surcharge_per_kg |-> 200,
   insurance_rate |-> 200,
   express_multiplier |-> 150, standard_multiplier |-> 100,
   economy_multiplier |-> 80,
   signature_fee |-> 20000]

\* another tariff an operator may have set (environment / database row)
OtherTariff ==
  [price_per_km |-> 15050, minimum_price |-> 75025,
   weight_surcharge_per_kg |-> 1234, heavy_surcharge_per_kg |-> 777,
   insurance_rate |-> 155,
   express_multiplier |-> 175, standard_multiplier |-> 105,
   economy_multiplier |-> 50,
   signature_fee |-> 0]

ConfigValues == {ConfigDefaults, OtherTariff}

\* a row of the pricing_configs table
pricing_row(id, is_active, values) ==
  [id |-> id, is_active |-> is_active, values |-> values]

\* a get_current that returns the settings of class Config, not the row it
\* stored, when it had to create the row
get_current_unsaved_defaults(table) ==
  LET active == {i \in 1..Len(table) : table[i].is_active}
  IN IF active # {}
     THEN [config |-> table[CHOOSE i \in active : \A j \in active : i <= j].values,
           table |-> table]
     ELSE [config |-> ConfigDefaults,
           table |-> Append(table,
                            pricing_row(Len(table) + 1, TRUE, PricingConfigDefaults))]

\* PricingConfig.get_current: the first active row; when there is none a row
\* with the column defaults is added and committed
get_current(table) ==
  LET active == {i \in 1..Len(table) : table[i].is_active}
  IN IF active # {}
     THEN [config |-> table[CHOOSE i \in active : \A j \in active : i <= j].values,
           table |-> table]
     ELSE [config |-> PricingConfigDefaults,
           table |-> Append(table,
                            pricing_row(Len(table) + 1, TRUE, PricingConfigDefaults))]

(***************************************************************************)
(* Tariff chain                                                             *)
(***************************************************************************)

ServiceTypes == {"express", "standard", "economy"}

\* a key the request body does not have
AbsentKey == "<absent>"

\* a lookup that charges an unrecognized service type as express
service_multiplier_unknown_as_express(config, service_type) ==
  CASE service_type = "standard" -> config.standard_multiplier
    [] service_type = "economy" -> config.economy_multiplier
    [] OTHER -> config.express_multiplier

\* service_multipliers.get(service_type, 1.0), in 1/100
service_multiplier(config, service_type) ==
  CASE service_type = "express" -> config.express_multiplier
    [] service_type = "standard" -> config.standard_multiplier
    [] service_type = "economy" -> config.economy_multiplier
    [] OTHER -> 100

\* a chain with banded tiers: the first tier ends at 20 kg
final_price_chain_banded_tiers(pricing_config, base_price, weight, package_value, service_type, insurance_required, signature_required) ==
  LET total2 == IF weight > 5
                THEN base_price + ((IF weight > 20 THEN 20 ELSE weight) - 5)
                                    * pricing_config.weight_surcharge_per_kg
                ELSE base_price
      total3 == IF weight > 20
                THEN total2 + (weight - 20) * pricing_config.heavy_surcharge_per_kg
                ELSE total2
      total4 == total3 * service_multiplier(pricing_config, service_type)
      total5 == IF insurance_required /\ package_value > 0
                THEN total4 + package_value * pricing_config.insurance_rate
                ELSE total4
      total6 == IF signature_required
                THEN total5 + pricing_config.signature_fee * 100
                ELSE total5
      total7 == IF total6 < pricing_config.minimum_price * 100
                THEN pricing_config.minimum_price * 100
                ELSE total6
  IN round_div(total7, 100)

\* a chain that insures any declared value, negative ones included
final_price_chain_insuring_any_value(pricing_config, base_price, weight, package_value, service_type, insurance_required, signature_required) ==
  LET total2 == IF weight > 5
                THEN base_price + (weight - 5) * pricing_config.weight_surcharge_per_kg
                ELSE base_price
      total3 == IF weight > 20
                THEN total2 + (weight - 20) * pricing_config.heavy_surcharge_per_kg
                ELSE total2
      total4 == total3 * service_multiplier(pricing_config, service_type)
      total5 == IF insurance_required
                THEN total4 + package_value * pricing_config.insurance_rate
                ELSE total4
      total6 == IF signature_required
                THEN total5 + pricing_config.signature_fee * 100
                ELSE total5
      total7 == IF total6 < pricing_config.minimum_price * 100
                THEN pricing_config.minimum_price * 100
                ELSE total6
  IN round_div(total7, 100)

\* a chain that leaves out the minimum price
final_price_chain_without_minimum(pricing_config, base_price, weight, package_value, service_type, insurance_required, signature_required) ==
  LET total3 == base_price
                  + (IF weight > 5
                     THEN (weight - 5) * pricing_config.weight_surcharge_per_kg
                     ELSE 0)
                  + (IF weight > 20
                     THEN (weight - 20) * pricing_config.heavy_surcharge_per_kg
                     ELSE 0)
      total4 == total3 * service_multiplier(pricing_config, service_type)
      total5 == IF insurance_required /\ package_value > 0
                THEN total4 + package_value * pricing_config.insurance_rate
                ELSE total4
      total6 == IF signature_required
                THEN total5 + pricing_config.signature_fee * 100
                ELSE total5
  IN round_div(total6, 100)

\* BookingService.calculate_final_price after the config was read: the
\* chain on base_price (1/100 naira), weight (kg) and package_value (naira);
\* the running total is in 1/10000 naira once the multiplier is applied and
\* the result, round(total_price, 2), in 1/100 naira
final_price_chain(pricing_config, base_price, weight, package_value, service_type, insurance_required, signature_required) ==
  LET total1 == base_price
      total2 == IF weight > 5
                THEN total1 + (weight - 5) * pricing_config.weight_surcharge_per_kg
                ELSE total1
      total3 == IF weight > 20
                THEN total2 + (weight - 20) * pricing_config.heavy_surcharge_per_kg
                ELSE total2
      multiplier == service_multiplier(pricing_config, service_type)
      total4 == total3 * multiplier
      total5 == IF insurance_required /\ package_value > 0
                THEN total4 + package_value * pricing_config.insurance_rate
                ELSE total4
      total6 == IF signature_required
                THEN total5 + pricing_config.signature_fee * 100
                ELSE total5
      total7 == IF total6 < pricing_config.minimum_price * 100
                THEN pricing_config.minimum_price * 100
                ELSE total6
  IN round_div(total7, 100)

\* a value of the JSON body of a request: a number, absent/null, or a value
\* float() rejects
Num(v) == [kind |-> "num", v |-> v]

Missing == [kind |-> "none", v |-> 0]

NotANumber == [kind |-> "bad", v |-> 0]

\* safe_float of api_calculate_price
safe_float(value, default) == IF value.kind = "num" THEN value.v ELSE default

PriceNone ==
  [status |-> 0, success |-> FALSE, final_price |-> 0,
   price_breakdown |->
     [base_price |-> 0, service_type |-> "none", service_multiplier |-> 0,
      weight |-> 0, weight_surcharge |-> 0, insurance_required |-> FALSE,
      insurance_amount |-> 0, signature_required |-> FALSE,
      signature_fee |-> 0, minimum_adjustment |-> 0]]

\* the weight_surcharge_amount api_calculate_price keeps for the breakdown
breakdown_weight_surcharge(weight, weight_surcharge, heavy_surcharge) ==
  IF weight > 5 THEN (weight - 5) * weight_surcharge ELSE 0

\* an adjustment computed after the total was raised to the minimum
price_minimum_adjustment_after_clamp(total, minimum_price) ==
  LET clamped == IF total < minimum_price * 100 THEN minimum_price * 100 ELSE total
  IN IF clamped < minimum_price * 100 THEN minimum_price * 100 - clamped ELSE 0

\* the minimum_adjustment of api_calculate_price for a running total in
\* 1/10000 naira
price_minimum_adjustment(total, minimum_price) ==
  IF total < minimum_price * 100 THEN minimum_price * 100 - total ELSE 0

\* api_calculate_price: the JSON response for the body data, computed from
\* the settings of class Config
calculate_price_response(config, data) ==
  IF data.distance_data.kind = "none"
  THEN [PriceNone EXCEPT !.status = 400]
  ELSE IF data.distance_data.kind = "bad"
  THEN [PriceNone EXCEPT !.status = 500]
  ELSE
    LET weight == safe_float(data.weight, 0)
        package_value == safe_float(data.package_value, 0)
        service_type == IF data.service_type = AbsentKey THEN "standard"
                        ELSE data.service_type
        insurance_required == data.insurance_required
        signature_required == data.signature_required
        base_price == safe_float(data.distance_data.base_price, 0)
        weight_surcharge == config.weight_surcharge_per_kg
        heavy_surcharge == config.heavy_surcharge_per_kg
        weight_surcharge_amount ==
          breakdown_weight_surcharge(weight, weight_surcharge, heavy_surcharge)
        total2 == IF weight > 5 THEN base_price + (weight - 5) * weight_surcharge
                  ELSE base_price
        total3 == IF weight > 20 THEN total2 + (weight - 20) * heavy_surcharge
                  ELSE total2
        multiplier == service_multiplier(config, service_type)
        total4 == total3 * multiplier
        insurance_amount ==
          IF insurance_required /\ package_value > 0
          THEN package_value * config.insurance_rate ELSE 0
        total5 == total4 + insurance_amount
        signature_fee == config.signature_fee
        total6 == IF signature_required THEN total5 + signature_fee * 100
                  ELSE total5
        minimum_price == config.minimum_price
        minimum_adjustment == price_minimum_adjustment(total6, minimum_price)
        total7 == IF total6 < minimum_price * 100 THEN minimum_price * 100
                  ELSE total6
    IN [status |-> 200, success |-> TRUE,
        final_price |-> round_div(total7, 100),
        price_breakdown |->
          [base_price |-> base_price,
           service_type |-> service_type,
           service_multiplier |-> multiplier,
           weight |-> weight,
           weight_surcharge |-> IF weight > 5 THEN weight_surcharge_amount ELSE 0,
           insurance_required |-> insurance_required,
           insurance_amount |->
             IF insurance_required THEN round_div(insurance_amount, 100) ELSE 0,
           signature_required |-> signature_required,
           signature_fee |-> IF signature_required THEN signature_fee ELSE 0,
           minimum_adjustment |-> round_div(minimum_adjustment, 100)]]

(***************************************************************************)
(* BookingService: the clients of the geocoding and distance-matrix API.    *)
(* Time is counted in ticks of 0.05 s.                                      *)
(***************************************************************************)

\* the 0.1 s of _check_rate_limit, in ticks
RateLimitTicks == 2

\* _check_rate_limit at time now: the time it returns at and the new
\* last_api_call
check_rate_limit(last_api_call, now) ==
  LET woke == IF now - last_api_call < RateLimitTicks
              THEN now + RateLimitTicks ELSE now
  IN [now |-> woke, last_api_call |-> woke]

\* how long a request to the API takes, in ticks
Latencies == {0, 2}

\* answers of the geocoding API to one request: a place, no result
\* (status other than OK or empty list) or a failed request
ApiPlaces ==
  { [lat |-> 91167, lng |-> 73833], [lat |-> 66018, lng |-> 33515] }

ApiGeocodeOutcomes ==
  {[kind |-> "ok", place |-> p] : p \in ApiPlaces}
    \cup {[kind |-> k, place |-> [lat |-> 0, lng |-> 0]] :
            k \in {"zero_results", "exception"}}

ApiGeoNone == [found |-> FALSE, latitude |-> 0, longitude |-> 0]

\* BookingService.geocode_address at time now, when the request, if sent,
\* takes latency and gets outcome
BookingService_geocode_address(self, now, address, outcome, latency) ==
  IF ~self.geocoding_api_key \/ address = <<>>
  THEN [result |-> ApiGeoNone, self |-> self, now |-> now, sent |-> <<>>]
  ELSE LET checked == check_rate_limit(self.last_api_call, now)
       IN [result |->
             IF outcome.kind = "ok"
             THEN [found |-> TRUE, latitude |-> outcome.place.lat,
                   longitude |-> outcome.place.lng]
             ELSE ApiGeoNone,
           self |-> [self EXCEPT !.last_api_call = checked.last_api_call],
           now |-> checked.now + latency,
           sent |-> <<[api |-> "geocode", at |-> checked.now]>>]

\* answers of the distance-matrix API: an element with a distance in metres
\* and a duration in seconds, or one of the failures
MatrixDistances == {0, 450, 12345, 100000}

MatrixOutcomes ==
  {[kind |-> "ok", distance |-> d, duration |-> 1800] : d \in MatrixDistances}
    \cup {[kind |-> k, distance |-> 0, duration |-> 0] :
            k \in {"exception", "status_not_ok", "no_elements", "element_not_ok"}}

MatrixNone ==
  [success |-> FALSE, driving_distance_km |-> 0, straight_distance_km |-> 0,
   duration_seconds |-> 0, base_price |-> 0,
   origin_coords |-> <<0, 0>>, destination_coords |-> <<0, 0>>,
   mode |-> "none"]

\* a base price without the minimum
matrix_base_price_without_minimum(pricing_config, distance_meters) ==
  round_div(distance_meters * pricing_config.price_per_km, 1000)

\* the base price calculate_distance_matrix derives from the distance in
\* metres (1/100 naira)
matrix_base_price(pricing_config, distance_meters) ==
  LET base_price == distance_meters * pricing_config.price_per_km
  IN IF base_price < pricing_config.minimum_price * 1000
     THEN pricing_config.minimum_price
     ELSE round_div(base_price, 1000)

\* BookingService.calculate_distance_matrix at time now.  env holds what the
\* three requests get if they are sent.  Distances of the result are in
\* 1/100 km; the straight-line distance (geopy's geodesic) is computed as
\* calculate_distance does; the address texts are left out.
BookingService_calculate_distance_matrix(self, table, now, origin, destination, mode, env) ==
  IF ~self.distance_matrix_api_key \/ origin = <<>> \/ destination = <<>>
  THEN [result |-> MatrixNone, self |-> self, table |-> table, now |-> now,
        sent |-> <<>>, matrix |-> "not_sent", distance_meters |-> 0]
  ELSE
    LET checked == check_rate_limit(self.last_api_call, now)
        self1 == [self EXCEPT !.last_api_call = checked.last_api_call]
        origin_geocode ==
          BookingService_geocode_address(self1, checked.now, origin,
                                         env.origin, env.latency[1])
        destination_geocode ==
          BookingService_geocode_address(origin_geocode.self, origin_geocode.now,
                                         destination, env.destination,
                                         env.latency[2])
        self2 == destination_geocode.self
        now2 == destination_geocode.now
        sent2 == origin_geocode.sent \o destination_geocode.sent
        sent3 == Append(sent2, [api |-> "distancematrix", at |-> now2])
        now3 == now2 + env.latency[3]
        current == get_current(table)
        straight_distance ==
          calculate_distance(origin_geocode.result.latitude,
                             origin_geocode.result.longitude,
                             destination_geocode.result.latitude,
                             destination_geocode.result.longitude)
    IN IF ~origin_geocode.result.found \/ ~destination_geocode.result.found
       THEN [result |-> MatrixNone, self |-> self2, table |-> table,
             now |-> now2, sent |-> sent2, matrix |-> "not_sent",
             distance_meters |-> 0]
       ELSE IF env.matrix.kind # "ok"
       THEN [result |-> MatrixNone, self |-> self2, table |-> table,
             now |-> now3, sent |-> sent3, matrix |-> env.matrix.kind,
             distance_meters |-> 0]
       ELSE [result |->
               [success |-> TRUE,
                driving_distance_km |-> round_div(env.matrix.distance, 10),
                straight_distance_km |-> round_div(straight_distance, 10),
                duration_seconds |-> env.matrix.duration,
                base_price |-> matrix_base_price(current.config, env.matrix.distance),
                origin_coords |-> <<origin_geocode.result.latitude,
                                    origin_geocode.result.longitude>>,
                destination_coords |-> <<destination_geocode.result.latitude,
                                         destination_geocode.result.longitude>>,
                mode |-> mode],
             self |-> self2, table |-> current.table,
             now |-> now3, sent |-> sent3, matrix |-> "ok",
             distance_meters |-> env.matrix.distance]

(***************************************************************************)
(* State                                                                    *)
(***************************************************************************)
VARIABLES
  Config,           \* the pricing settings of class Config (config.py)
  pricing_configs,  \* the rows of table pricing_configs (models.py)
  geocode_http,     \* the /api/geocode request being served
  route_http,       \* the /api/calculate-route request being served
  quote,            \* the price computation being served
  booking_service,  \* the BookingService instance of the application
  clock,            \* time.time(), in ticks
  matrix_call,      \* the call of calculate_distance_matrix being served
  db_sessions,      \* the calls of PricingConfig.get_current under way
  config_changes,   \* how often the operator changed the active config
  bookings,         \* the rows of table bookings
  tracking_updates, \* the rows of table tracking_updates, oldest first
  create_call       \* the call of create_booking being served

store_vars == <<config_changes, bookings, tracking_updates, create_call>>

service_vars == <<booking_service, clock, matrix_call, db_sessions, store_vars>>

vars == <<Config, pricing_configs, geocode_http, route_http, quote, service_vars>>

GazetteerNames == {NIGERIAN_LOCATIONS[k].name : k \in 1..Len(NIGERIAN_LOCATIONS)}

\* the request threads that may run PricingConfig.get_current at the same
\* time
Callers == {"t1", "t2", "t3"}

\* a thread that is not in get_current
SessionIdle == [pc |-> "idle", config |-> None, caller |-> "none"]

\* the operations that call PricingConfig.get_current
GetCurrentCallers ==
  {"calculate_distance_matrix", "calculate_final_price", "create_booking"}

\* addresses a client may send besides the bare gazetteer names
SampleAddresses ==
  { <<"C","h","i","k","a","k","o","r","e",","," ","K","u","b","w","a",","," ","A","b","u","j","a">>,
    <<"W","u","s","e"," ","2",","," ","A","b","u","j","a">>,
    <<"A","i","r","p","o","r","t"," ","R","o","a","d",","," ","A","b","u","j","a">>,
    <<"P","l","o","t"," ","5",","," ","I","n","d","e","p","e","n","d","e","n","c","e"," ","L","a","y","o","u","t",","," ","E","n","u","g","u">>,
    <<"1","2"," ","U","n","k","n","o","w","n"," ","C","l","o","s","e">>,
    <<" "," ","L","e","k","k","i"," ","P","h","a","s","e"," ","1"," ">>,
    <<"x","y">>,
    <<" "," "," ">>,
    <<>> }

\* addresses of route requests
RouteAddresses ==
  { <<"k","u","b","w","a">>,
    <<"W","u","s","e"," ","2",","," ","A","b","u","j","a">>,
    <<"j","u","l","i","u","s"," ","b","e","r","g","e","r">>,
    <<"l","i","f","e","c","a","m","p">>,
    <<"I","k","e","j","a",","," ","L","a","g","o","s">>,
    <<"a","i","r","p","o","r","t"," ","r","o","a","d">>,
    <<"1","2"," ","U","n","k","n","o","w","n"," ","C","l","o","s","e">>,
    <<"x","y">> }

GeocodeIdle ==
  [pc |-> "idle", address |-> <<>>, status |-> 0, result |-> GeoNone,
   steps |-> <<>>, requests |-> <<>>, earlier |-> GeoNone]

RouteIdle ==
  [pc |-> "idle", origin |-> <<>>, destination |-> <<>>, mode |-> "none",
   status |-> 0, response |-> RouteNone, resolved |-> <<>>, requests |-> <<>>]

NoData ==
  [distance_data |-> [kind |-> "none", base_price |-> Missing],
   weight |-> Missing, package_value |-> Missing, service_type |-> AbsentKey,
   insurance_required |-> FALSE, signature_required |-> FALSE]

MatrixIdle ==
  [pc |-> "idle", origin |-> <<>>, destination |-> <<>>, mode |-> "none",
   result |-> MatrixNone, sent |-> <<>>, matrix |-> "not_sent",
   distance_meters |-> 0]

\* the data of no create_booking call
NoBookingData ==
  [pickup_address |-> <<>>, delivery_address |-> <<>>, weight |-> 0,
   package_value |-> 0, service_type |-> "standard",
   insurance_required |-> FALSE, signature_required |-> FALSE]

\* no earlier quote is being asked for again
NoEarlier ==
  [asked |-> FALSE, response |-> PriceNone,
   returned |-> [is_none |-> TRUE, price |-> 0]]

\* again holds the quote a caller got before asking for the same one again
QuoteIdle ==
  [pc |-> "idle", via |-> "none", data |-> NoData, response |-> PriceNone,
   returned |-> [is_none |-> TRUE, price |-> 0], again |-> NoEarlier]

\* no call of create_booking is under way
CreateIdle ==
  [pc |-> "idle", data |-> NoBookingData, pricing_config |-> None,
   distance_data |-> MatrixNone, distance_meters |-> 0]

\* the tables the database may hold when the application starts: empty, or
\* rows written by the operator
InitialTables ==
  { <<>>,
    <<pricing_row(1, TRUE, OtherTariff)>>,
    <<pricing_row(1, FALSE, OtherTariff), pricing_row(2, TRUE, ConfigDefaults)>> }

Init ==
  /\ Config \in ConfigValues
  /\ pricing_configs \in InitialTables
  /\ geocode_http = GeocodeIdle
  /\ route_http = RouteIdle
  /\ quote = QuoteIdle
  /\ booking_service \in [distance_matrix_api_key : BOOLEAN,
                          geocoding_api_key : BOOLEAN,
                          last_api_call : {0}]
  /\ clock = RateLimitTicks
  /\ matrix_call = MatrixIdle
  /\ db_sessions = [c \in Callers |-> SessionIdle]
  /\ config_changes = 0
  /\ bookings = <<>>
  /\ tracking_updates = <<>>
  /\ create_call = CreateIdle

(***************************************************************************)
(* /api/geocode                                                             *)
(***************************************************************************)

\* a client posts an address
RequestGeocode ==
  /\ geocode_http.pc = "idle"
  /\ \E address \in GazetteerNames \cup SampleAddresses :
       geocode_http' = [GeocodeIdle EXCEPT !.pc = "received", !.address = address]
  /\ UNCHANGED <<Config, pricing_configs, route_http, quote, service_vars>>

\* a client posts the formatted address of the answer it just got
ResubmitFormatted ==
  /\ geocode_http.pc = "responded"
  /\ geocode_http.result.found
  /\ geocode_http.earlier = GeoNone
  /\ geocode_http' =
       [GeocodeIdle EXCEPT !.pc = "received",
                           !.address = geocode_http.result.formatted_address,
                           !.earlier = geocode_http.result]
  /\ UNCHANGED <<Config, pricing_configs, route_http, quote, service_vars>>

\* api_geocode
api_geocode ==
  /\ geocode_http.pc = "received"
  /\ LET address == strip(geocode_http.address)
     IN IF address = <<>>
        THEN geocode_http' = [geocode_http EXCEPT !.pc = "responded", !.status = 400]
        ELSE \E call \in geocode_address(address) :
               geocode_http' =
                   [geocode_http EXCEPT
                      !.pc = "responded",
                      !.status = IF call.result.found THEN 200 ELSE 404,
                      !.result = call.result,
                      !.steps = call.steps,
                      !.requests = call.requests]
  /\ UNCHANGED <<Config, pricing_configs, route_http, quote, service_vars>>

\* the response has been sent
GeocodeDone ==
  /\ geocode_http.pc = "responded"
  /\ geocode_http' = GeocodeIdle
  /\ UNCHANGED <<Config, pricing_configs, route_http, quote, service_vars>>

NextGeo == RequestGeocode \/ ResubmitFormatted \/ api_geocode \/ GeocodeDone

\* the tariff plays no part in /api/geocode
InitGeo ==
  /\ Init
  /\ Config = ConfigDefaults
  /\ pricing_configs = <<>>
  /\ booking_service.distance_matrix_api_key
  /\ booking_service.geocoding_api_key

SpecGeo == InitGeo /\ [][NextGeo]_vars

(***************************************************************************)
(* /api/calculate-route                                                     *)
(***************************************************************************)

RequestRoute ==
  /\ route_http.pc = "idle"
  /\ \E origin \in RouteAddresses, destination \in RouteAddresses,
        mode \in RouteModes \cup {"flying"} :
       route_http' = [RouteIdle EXCEPT !.pc = "received", !.origin = origin,
                                       !.destination = destination, !.mode = mode]
  /\ UNCHANGED <<Config, pricing_configs, geocode_http, quote, service_vars>>

\* the base_price api_calculate_route adds to a successful result, from the
\* driving distance in 1/10 km
route_base_price(config, driving_distance_km) ==
  LET price_per_km == config.price_per_km
      minimum_price == config.minimum_price
      base_price == driving_distance_km * price_per_km
  IN IF base_price < minimum_price * 10 THEN minimum_price
     ELSE round_div(base_price, 10)

\* api_calculate_route
api_calculate_route ==
  /\ route_http.pc = "received"
  /\ LET origin == strip(route_http.origin)
         destination == strip(route_http.destination)
     IN IF origin = <<>> \/ destination = <<>>
        THEN route_http' = [route_http EXCEPT !.pc = "responded", !.status = 400]
        ELSE \E call \in calculate_route(origin, destination, route_http.mode) :
               route_http' =
                 [route_http EXCEPT
                    !.pc = "responded",
                    !.status = IF call.result.success THEN 200 ELSE 400,
                    !.response =
                      IF call.result.success
                      THEN [call.result EXCEPT
                              !.base_price =
                                route_base_price(Config, call.result.driving_distance_km)]
                      ELSE call.result,
                    !.resolved = call.resolved,
                    !.requests = call.requests]
  /\ UNCHANGED <<Config, pricing_configs, geocode_http, quote, service_vars>>

RouteDone ==
  /\ route_http.pc = "responded"
  /\ route_http' = RouteIdle
  /\ UNCHANGED <<Config, pricing_configs, geocode_http, quote, service_vars>>

NextRoute == RequestRoute \/ api_calculate_route \/ RouteDone

\* /api/calculate-route reads class Config only
InitRoute ==
  /\ Init
  /\ pricing_configs = <<>>
  /\ booking_service.distance_matrix_api_key
  /\ booking_service.geocoding_api_key

SpecRoute == InitRoute /\ [][NextRoute]_vars

(***************************************************************************)
(* Properties of address resolution                                         *)
(***************************************************************************)

\* the address api_geocode passed to geocode_address
GeocodedAddress == strip(geocode_http.address)

\* geocode_address accepted the address (3 characters or more)
GeocodeAnswered ==
  /\ geocode_http.pc = "responded"
  /\ Len(GeocodedAddress) >= 3

\* the gazetteer entries whose name occurs in the address as sent
NamesInAddress ==
  {k \in 1..Len(NIGERIAN_LOCATIONS) :
     contains(lower(GeocodedAddress), NIGERIAN_LOCATIONS[k].name)}

\* C3: an address that contains a gazetteer place name resolves to the
\* coordinates of a place it names, with match type known_location and
\* without any request to the network.
C3_GazetteerPrecedence ==
  (GeocodeAnswered /\ NamesInAddress # {}) =>
     /\ geocode_http.result.found
     /\ geocode_http.result.match_type = "known_location"
     /\ \E k \in NamesInAddress :
          /\ geocode_http.result.latitude = NIGERIAN_LOCATIONS[k].lat
          /\ geocode_http.result.longitude = NIGERIAN_LOCATIONS[k].lng
     /\ geocode_http.requests = <<>>

\* the gazetteer entries whose name occurs in the normalized address
NamesInNormalized ==
  Apply(normalize_address(GeocodedAddress),
        LAMBDA text : {k \in 1..Len(NIGERIAN_LOCATIONS) :
                         contains(text, NIGERIAN_LOCATIONS[k].name)})

\* C23: when several gazetteer names occur in the normalized address, the
\* lookup returns the entry that comes first in the gazetteer's order,
\* whatever the names' lengths and positions: 'Chikakore, Kubwa, Abuja'
\* gives the 'kubwa' entry and 'Wuse 2, Abuja' the 'wuse' entry.
C23_FirstMatchWins ==
  (GeocodeAnswered /\ NamesInNormalized # {}) =>
     LET names == NamesInNormalized
         first == CHOOSE k \in names : \A j \in names : k <= j
     IN /\ geocode_http.result.match_type = "known_location"
        /\ geocode_http.result.matched_term = NIGERIAN_LOCATIONS[first].name
        /\ geocode_http.result.latitude = NIGERIAN_LOCATIONS[first].lat
        /\ geocode_http.result.longitude = NIGERIAN_LOCATIONS[first].lng
        /\ geocode_http.address = <<"C","h","i","k","a","k","o","r","e",","," ","K","u","b","w","a",","," ","A","b","u","j","a">>
             => geocode_http.result.matched_term = <<"k","u","b","w","a">>
        /\ geocode_http.address = <<"W","u","s","e"," ","2",","," ","A","b","u","j","a">>
             => geocode_http.result.matched_term = <<"w","u","s","e">>

\* C23 witness: 'Chikakore, Kubwa, Abuja' holds two names, the later and
\* shorter of which comes first in the gazetteer
C23_Witness ==
  /\ GeocodeAnswered
  /\ geocode_http.address = <<"C","h","i","k","a","k","o","r","e",","," ","K","u","b","w","a",","," ","A","b","u","j","a">>
  /\ Cardinality(NamesInNormalized) = 2
  /\ geocode_http.result.matched_term = <<"k","u","b","w","a">>
  /\ geocode_http.result.match_type = "known_location"

StrategyOrder ==
  <<"known_location", "nominatim_raw", "nominatim_simplified", "city_fallback">>

\* the strategy that produces a result of the given match type
StrategyOf(match_type) ==
  IF match_type = "nominatim" THEN "nominatim_raw" ELSE match_type

\* C4: the strategies run in the fixed order, each one only after all the
\* earlier ones, the first success is returned and nothing runs after it,
\* and not-found is reported only after all four strategies have run.
C4_FallbackChain ==
  GeocodeAnswered =>
     LET steps == geocode_http.steps
     IN /\ Len(steps) <= Len(StrategyOrder)
        /\ steps = SubSeq(StrategyOrder, 1, Len(steps))
        /\ geocode_http.result.found =>
             /\ steps # <<>>
             /\ steps[Len(steps)] = StrategyOf(geocode_http.result.match_type)
        /\ ~geocode_http.result.found => steps = StrategyOrder

\* C7: resolving the formatted address of a known_location or city_fallback
\* result again gives the same coordinates.
C7_ReResolutionStable ==
  ( /\ geocode_http.pc = "responded"
    /\ geocode_http.earlier.found
    /\ geocode_http.earlier.match_type \in {"known_location", "city_fallback"} )
  =>
    /\ geocode_http.result.found
    /\ geocode_http.result.latitude = geocode_http.earlier.latitude
    /\ geocode_http.result.longitude = geocode_http.earlier.longitude

(***************************************************************************)
(* Properties of the geometric route estimate                               *)
(***************************************************************************)

\* calculate_route ran for the request and the response is out
RouteAnswered ==
  /\ route_http.pc = "responded"
  /\ route_http.resolved # <<>>

RouteSucceeded == RouteAnswered /\ route_http.response.success

\* C5: a successful route estimate has a driving distance of 1 km or more
\* (distances are in 1/10 km).
C5_MinimumDistanceFloor ==
  RouteSucceeded => route_http.response.driving_distance_km >= 10

\* C6: is_same_city is true only when both resolved locations carry a city
\* and the two cities are equal.
C6_SameCityNeedsCities ==
  (RouteSucceeded /\ route_http.response.is_same_city) =>
     /\ route_http.resolved[1].geo.city # None
     /\ route_http.resolved[2].geo.city # None
     /\ route_http.resolved[1].geo.city = route_http.resolved[2].geo.city

\* C8: origin is resolved first and destination second; a failed origin
\* gives a failure naming the origin, a failed destination alone a failure
\* naming the destination, and a failure carries no distance, duration or
\* price.
C8_RouteFailureNamesField ==
  RouteAnswered =>
     LET origin_geo == route_http.resolved[1].geo
         dest_geo == route_http.resolved[2].geo
         response == route_http.response
     IN /\ Len(route_http.resolved) = 2
        /\ route_http.resolved[1].field = "origin"
        /\ route_http.resolved[2].field = "destination"
        /\ ~origin_geo.found => (~response.success /\ response.error = "origin")
        /\ (origin_geo.found /\ ~dest_geo.found) =>
             (~response.success /\ response.error = "destination")
        /\ response.success => (origin_geo.found /\ dest_geo.found)
        /\ ~response.success =>
             /\ route_http.status = 400
             /\ response.driving_distance_km = 0
             /\ response.straight_distance_km = 0
             /\ response.duration_seconds = 0
             /\ response.base_price = 0

\* C8 witness: a request whose origin resolved and whose destination did not
C8_Witness ==
  /\ RouteAnswered
  /\ route_http.resolved[1].geo.found
  /\ ~route_http.resolved[2].geo.found
  /\ route_http.response.error = "destination"

\* the answers that are failures of the request
FailedAnswers == {"exception", "http_error"}

\* C19: a failed request to Nominatim counts as no result for that request
\* only: when the raw-address query failed, the normalized-address query is
\* still sent, and the caller gets an answer.
C19_FailedCallFallsThrough ==
  GeocodeAnswered =>
     /\ geocode_http.status \in {200, 404}
     /\ \A i \in 1..Len(geocode_http.requests) :
          ( /\ geocode_http.requests[i].kind = "nominatim_raw"
            /\ geocode_http.requests[i].answer \in FailedAnswers )
          => /\ Len(geocode_http.requests) > i
             /\ geocode_http.requests[i + 1].kind = "nominatim_simplified"

\* the requests, in the order sent, are 1 s (20 ticks) or more apart
OneSecondApart(requests) ==
  \A i \in 1..(Len(requests) - 1) : requests[i + 1].at - requests[i].at >= 20

\* C20: two consecutive requests to Nominatim are at least 1 s apart, within
\* one resolution and within one route estimate.
C20_NominatimSpacing ==
  /\ geocode_http.pc = "responded" => OneSecondApart(geocode_http.requests)
  /\ route_http.pc = "responded" => OneSecondApart(route_http.requests)

\* the straight-line distance between the coordinates of the response, in
\* metres
ResponseStraightDistance ==
  calculate_distance(route_http.response.origin_coords[1],
                     route_http.response.origin_coords[2],
                     route_http.response.destination_coords[1],
                     route_http.response.destination_coords[2])

\* the two resolved locations both carry a city, the same one
EqualCities ==
  /\ route_http.resolved[1].geo.city # None
  /\ route_http.resolved[1].geo.city = route_http.resolved[2].geo.city

\* the cities of the two resolved locations differ
DifferingCities == route_http.resolved[1].geo.city # route_http.resolved[2].geo.city

C26_DurationFromSpeed ==
  (RouteSucceeded /\ route_http.response.mode \in RouteModes) =>
     LET response == route_http.response
         speed == IF response.mode = "walking" THEN 5
                  ELSE IF response.mode = "bicycling" THEN 15
                  ELSE IF response.is_same_city THEN 35 ELSE 60
         multiplier == IF response.is_same_city THEN 130 ELSE 125
         driving_distance == ResponseStraightDistance * multiplier
     IN response.duration_seconds = (driving_distance * 9) \div (speed * 250)

\* C26 witness: driving between two cities, at 60 km/h
C26_Witness ==
  /\ RouteSucceeded
  /\ route_http.response.mode = "driving"
  /\ ~route_http.response.is_same_city
  /\ route_http.response.duration_seconds > 3600
  /\ route_http.response.duration_seconds
       = (ResponseStraightDistance * 125 * 9) \div (60 * 250)

(***************************************************************************)
(* Price computations: /api/calculate-price and                             *)
(* BookingService.calculate_final_price                                     *)
(***************************************************************************)

\* inputs: base prices in 1/100 naira, weights in kg, declared values in naira
BasePrices == {-10000, 0, 10001, 33333, 200000}

Weights == {-3, 5, 6, 20, 21, 25}

PackageValues == {-500, 0, 10000, 12345}

ServiceTypeInputs == ServiceTypes \cup {"overnight"}

\* the JSON bodies a client posts to /api/calculate-price
PriceBodies ==
  [distance_data :
     {[kind |-> "none", base_price |-> Missing],
      [kind |-> "bad", base_price |-> Missing]}
       \cup {[kind |-> "dict", base_price |-> b] :
               b \in {Num(p) : p \in BasePrices} \cup {Missing}},
   weight : {Num(w) : w \in Weights} \cup {Missing, NotANumber},
   package_value : {Num(v) : v \in PackageValues} \cup {Missing},
   service_type : ServiceTypeInputs \cup {AbsentKey},
   insurance_required : BOOLEAN,
   signature_required : BOOLEAN]

\* the arguments of a call of calculate_final_price, in the shape of a body;
\* distance_data of kind "none" is a call with distance_data = None
PriceCalls ==
  [distance_data :
     {[kind |-> "none", base_price |-> Missing]}
       \cup {[kind |-> "dict", base_price |-> Num(p)] : p \in BasePrices},
   weight : {Num(w) : w \in Weights},
   package_value : {Num(v) : v \in PackageValues},
   service_type : ServiceTypeInputs,
   insurance_required : BOOLEAN,
   signature_required : BOOLEAN]

\* a client posts a body to /api/calculate-price
RequestPrice ==
  /\ quote.pc = "idle"
  /\ \E data \in PriceBodies :
       quote' = [QuoteIdle EXCEPT !.pc = "received",
                                  !.via = "api_calculate_price", !.data = data]
  /\ UNCHANGED <<Config, pricing_configs, geocode_http, route_http, service_vars>>

\* api_calculate_price
api_calculate_price ==
  /\ quote.pc = "received"
  /\ quote.via = "api_calculate_price"
  /\ quote' = [quote EXCEPT !.pc = "done",
                            !.response = calculate_price_response(Config, quote.data)]
  /\ UNCHANGED <<Config, pricing_configs, geocode_http, route_http, service_vars>>

\* the client posts the same body again
RepeatPrice ==
  /\ quote.pc = "done"
  /\ quote.via = "api_calculate_price"
  /\ ~quote.again.asked
  /\ quote' = [quote EXCEPT !.pc = "received", !.response = PriceNone,
                            !.again = [asked |-> TRUE,
                                       response |-> quote.response,
                                       returned |-> quote.returned]]
  /\ UNCHANGED <<Config, pricing_configs, geocode_http, route_http, service_vars>>

\* one run of BookingService.calculate_final_price with the arguments data;
\* again is the earlier result when the call repeats an earlier one
final_price_call(data, again) ==
  IF data.distance_data.kind = "none"
  THEN /\ quote' = [QuoteIdle EXCEPT !.pc = "done",
                                     !.via = "calculate_final_price",
                                     !.data = data, !.again = again]
       /\ UNCHANGED pricing_configs
  ELSE \E current \in {get_current(pricing_configs)} :
         /\ pricing_configs' = current.table
         /\ quote' =
              [QuoteIdle EXCEPT
                 !.pc = "done",
                 !.via = "calculate_final_price",
                 !.data = data,
                 !.again = again,
                 !.returned =
                   [is_none |-> FALSE,
                    price |->
                      final_price_chain(current.config,
                                        data.distance_data.base_price.v,
                                        data.weight.v, data.package_value.v,
                                        data.service_type,
                                        data.insurance_required,
                                        data.signature_required)]]

\* BookingService.calculate_final_price, called with the arguments data
calculate_final_price ==
  /\ quote.pc = "idle"
  /\ \E data \in PriceCalls : final_price_call(data, NoEarlier)
  /\ UNCHANGED <<Config, geocode_http, route_http, service_vars>>

\* BookingService.calculate_final_price, called again with the arguments of
\* the call that just returned
RecalculateFinalPrice ==
  /\ quote.pc = "done"
  /\ quote.via = "calculate_final_price"
  /\ ~quote.again.asked
  /\ final_price_call(quote.data, [asked |-> TRUE,
                                   response |-> quote.response,
                                   returned |-> quote.returned])
  /\ UNCHANGED <<Config, geocode_http, route_http, service_vars>>

\* the quote has been handed to the caller
QuoteDone ==
  /\ quote.pc = "done"
  /\ quote' = QuoteIdle
  /\ UNCHANGED <<Config, pricing_configs, geocode_http, route_http, service_vars>>

NextTariff ==
  \/ RequestPrice
  \/ RepeatPrice
  \/ api_calculate_price
  \/ calculate_final_price
  \/ RecalculateFinalPrice
  \/ QuoteDone

\* the API keys play no part in a price computation
InitTariff ==
  /\ Init
  /\ booking_service.distance_matrix_api_key
  /\ booking_service.geocoding_api_key

SpecTariff == InitTariff /\ [][NextTariff]_vars

(***************************************************************************)
(* Properties of the tariff chain                                           *)
(***************************************************************************)

\* a quote came back from /api/calculate-price
ApiQuoted ==
  /\ quote.pc = "done"
  /\ quote.via = "api_calculate_price"
  /\ quote.response.status = 200

\* a price came back from calculate_final_price
ServiceQuoted ==
  /\ quote.pc = "done"
  /\ quote.via = "calculate_final_price"
  /\ ~quote.returned.is_none

\* the number a body value stands for (absent and unparsable count as 0)
NumberOf(value) == IF value.kind = "num" THEN value.v ELSE 0

\* the service type a body stands for
ServiceTypeOf(data) ==
  IF data.service_type = AbsentKey THEN "standard" ELSE data.service_type

\* the config of the active row of the table
ActiveConfig ==
  LET i == CHOOSE i \in 1..Len(pricing_configs) :
             /\ pricing_configs[i].is_active
             /\ \A j \in 1..(i - 1) : ~pricing_configs[j].is_active
  IN pricing_configs[i].values

Indicator(b) == IF b THEN 1 ELSE 0

Max(a, b) == IF a >= b THEN a ELSE b

\* multiplier of the spec: the config's multiplier of the service type, 1.0
\* for an unrecognized type (in 1/100)
MultiplierOf(config, service_type) ==
  IF service_type = "express" THEN config.express_multiplier
  ELSE IF service_type = "standard" THEN config.standard_multiplier
  ELSE IF service_type = "economy" THEN config.economy_multiplier
  ELSE 100

\* the whole weight surcharge, both tiers (1/100 naira)
WeightSurchargeOf(config, weight) ==
  Indicator(weight > 5) * (weight - 5) * config.weight_surcharge_per_kg
    + Indicator(weight > 20) * (weight - 20) * config.heavy_surcharge_per_kg

\* round2(max(minimumPrice, (base + weight surcharges) * multiplier
\*                          + insurance + signature fee)) in 1/100 naira
TariffFormula(config, data) ==
  LET weight == NumberOf(data.weight)
      value == NumberOf(data.package_value)
      base == NumberOf(data.distance_data.base_price)
  IN round_div(
       Max(config.minimum_price * 100,
           (base + WeightSurchargeOf(config, weight))
               * MultiplierOf(config, ServiceTypeOf(data))
             + Indicator(data.insurance_required /\ value > 0)
                 * value * config.insurance_rate
             + Indicator(data.signature_required) * config.signature_fee * 100),
       100)

\* C1: the final price of both entry points is
\* round2(max(minimumPrice, (base + weight surcharges) * multiplier
\*            + insurance + signature fee)).
C1_TariffFormula ==
  /\ ApiQuoted => quote.response.final_price = TariffFormula(Config, quote.data)
  /\ ServiceQuoted => quote.returned.price = TariffFormula(ActiveConfig, quote.data)

\* the worked example: base 2000, 25 kg, express, insured 10000, signature
ExampleBody ==
  [distance_data |-> [kind |-> "dict", base_price |-> Num(200000)],
   weight |-> Num(25), package_value |-> Num(10000),
   service_type |-> "express",
   insurance_required |-> TRUE, signature_required |-> TRUE]

\* C1 witness: the worked example under the default settings costs 5650
C1_Witness ==
  /\ ApiQuoted
  /\ Config = ConfigDefaults
  /\ quote.data = ExampleBody
  /\ quote.response.final_price = 565000

\* C2: no quote is below the minimum price of the config it was computed
\* with.
C2_PriceFloor ==
  /\ ApiQuoted => quote.response.final_price >= Config.minimum_price
  /\ ServiceQuoted => quote.returned.price >= ActiveConfig.minimum_price

\* C2 witness: negative base price, weight and declared value at the economy
\* multiplier are clamped to the minimum price
C2_Witness ==
  /\ ServiceQuoted
  /\ quote.data.distance_data.base_price.v < 0
  /\ quote.data.weight.v < 0
  /\ quote.data.package_value.v < 0
  /\ quote.data.service_type = "economy"
  /\ ActiveConfig.economy_multiplier < 100
  /\ quote.returned.price = ActiveConfig.minimum_price

\* C10: the breakdown's weight surcharge is the whole surcharge, both tiers,
\* so that the items of the breakdown add up to the final price (to the
\* cent the rounding of the items allows).
C10_BreakdownComplete ==
  ApiQuoted =>
     LET b == quote.response.price_breakdown
         items == (b.base_price + b.weight_surcharge) * b.service_multiplier
                    + (b.insurance_amount + b.signature_fee
                         + b.minimum_adjustment) * 100
     IN /\ b.weight_surcharge = WeightSurchargeOf(Config, NumberOf(quote.data.weight))
        /\ abs(items - quote.response.final_price * 100) <= 100

\* the pre-adjustment total of the spec, in 1/10000 naira: (base + weight
\* surcharges) * multiplier + insurance + signature fee
PreAdjustmentTotal(config, data) ==
  LET weight == NumberOf(data.weight)
      value == NumberOf(data.package_value)
      base == NumberOf(data.distance_data.base_price)
  IN (base + WeightSurchargeOf(config, weight))
         * MultiplierOf(config, ServiceTypeOf(data))
       + Indicator(data.insurance_required /\ value > 0)
           * value * config.insurance_rate
       + Indicator(data.signature_required) * config.signature_fee * 100

\* C11: the tariff calculator never fails: every computation ends in a
\* numeric quote that is at least the minimum price, never in an error and
\* never in an absent result.
C11_NeverFails ==
  quote.pc = "done" =>
     /\ quote.via = "api_calculate_price" =>
          /\ quote.response.status = 200
          /\ quote.response.success
          /\ quote.response.final_price >= Config.minimum_price
     /\ quote.via = "calculate_final_price" =>
          /\ ~quote.returned.is_none
          /\ quote.returned.price >= ActiveConfig.minimum_price

\* C12: a price computation leaves the stored configs as they were.
C12_ConfigOnlyRead ==
  [][(quote'.pc = "done" /\ quote' # quote) => pricing_configs' = pricing_configs]_vars

C18_MinimumAdjustment ==
  /\ ApiQuoted =>
       LET total == PreAdjustmentTotal(Config, quote.data)
           b == quote.response.price_breakdown
       IN IF total < Config.minimum_price * 100
          THEN /\ quote.response.final_price = Config.minimum_price
               /\ b.minimum_adjustment
                    = round_div(Config.minimum_price * 100 - total, 100)
          ELSE /\ quote.response.final_price = round_div(total, 100)
               /\ b.minimum_adjustment = 0
  /\ ServiceQuoted =>
       LET total == PreAdjustmentTotal(ActiveConfig, quote.data)
       IN quote.returned.price
            = IF total < ActiveConfig.minimum_price * 100
              THEN ActiveConfig.minimum_price
              ELSE round_div(total, 100)

\* C18 witness: a base price below the minimum and no surcharge
C18_Witness ==
  /\ ApiQuoted
  /\ quote.data.distance_data.base_price = Num(10001)
  /\ quote.data.weight = Num(5)
  /\ ~quote.data.insurance_required
  /\ ~quote.data.signature_required
  /\ quote.data.service_type = "standard"
  /\ Config = ConfigDefaults
  /\ quote.response.final_price = 50000
  /\ quote.response.price_breakdown.minimum_adjustment = 39999

\* the price of a request that is charged weight_charge (1/100 naira) for
\* its weight and insurance_charge (1/10000 naira) for its declared value
ChargedPrice(config, data, weight_charge, insurance_charge) ==
  round_div(
    Max(config.minimum_price * 100,
        (NumberOf(data.distance_data.base_price) + weight_charge)
            * MultiplierOf(config, ServiceTypeOf(data))
          + insurance_charge
          + Indicator(data.signature_required) * config.signature_fee * 100),
    100)

\* the price when first_tier_kg are charged at the first tier and the
\* excess above 20 kg at the second
TieredPrice(config, data, first_tier_kg) ==
  LET value == NumberOf(data.package_value)
  IN ChargedPrice(config, data,
                  first_tier_kg * config.weight_surcharge_per_kg
                    + (NumberOf(data.weight) - 20) * config.heavy_surcharge_per_kg,
                  Indicator(data.insurance_required /\ value > 0)
                    * value * config.insurance_rate)

\* C22 as stated: a package heavier than 20 kg pays the first-tier surcharge
\* for the 15 kg between 5 kg and 20 kg and the second-tier surcharge for
\* the excess above 20 kg.
C22_BandedTiers ==
  /\ (ApiQuoted /\ NumberOf(quote.data.weight) > 20) =>
       quote.response.final_price = TieredPrice(Config, quote.data, 15)
  /\ (ServiceQuoted /\ NumberOf(quote.data.weight) > 20) =>
       quote.returned.price = TieredPrice(ActiveConfig, quote.data, 15)

\* C22 amended: a package heavier than 20 kg pays the first-tier surcharge
\* for all its weight above 5 kg and the second-tier surcharge, on top, for
\* the excess above 20 kg: 25 kg pays 20 kg at the first tier and 5 kg at
\* the second.
C22_TiersOnExcess ==
  /\ (ApiQuoted /\ NumberOf(quote.data.weight) > 20) =>
       quote.response.final_price
         = TieredPrice(Config, quote.data, NumberOf(quote.data.weight) - 5)
  /\ (ServiceQuoted /\ NumberOf(quote.data.weight) > 20) =>
       quote.returned.price
         = TieredPrice(ActiveConfig, quote.data, NumberOf(quote.data.weight) - 5)

\* C22 witness: 25 kg priced by calculate_final_price above the minimum
\* price, 20 kg at the first tier
C22_Witness ==
  /\ ServiceQuoted
  /\ quote.data.weight = Num(25)
  /\ quote.returned.price > ActiveConfig.minimum_price
  /\ quote.returned.price = TieredPrice(ActiveConfig, quote.data, 20)
  /\ quote.returned.price # TieredPrice(ActiveConfig, quote.data, 15)

\* C27: a weight of at most 5 kg, negative ones included, adds no weight
\* surcharge and a declared value of at most 0 adds no insurance, even when
\* insurance is required; a request with a negative weight or value is
\* priced, not rejected.
C27_NegativeInputsNoEffect ==
  LET weight == NumberOf(quote.data.weight)
      value == NumberOf(quote.data.package_value)
      weight_charge(config) ==
        IF weight <= 5 THEN 0 ELSE WeightSurchargeOf(config, weight)
      insurance_charge(config) ==
        IF value <= 0 THEN 0
        ELSE Indicator(quote.data.insurance_required) * value * config.insurance_rate
  IN /\ ( /\ quote.pc = "done"
          /\ quote.via = "api_calculate_price"
          /\ quote.data.distance_data.kind = "dict"
          /\ (weight <= 5 \/ value <= 0) ) =>
          /\ quote.response.status = 200
          /\ quote.response.final_price
               = ChargedPrice(Config, quote.data, weight_charge(Config),
                              insurance_charge(Config))
          /\ weight <= 5 => quote.response.price_breakdown.weight_surcharge = 0
          /\ value <= 0 => quote.response.price_breakdown.insurance_amount = 0
     /\ ( /\ quote.pc = "done"
          /\ quote.via = "calculate_final_price"
          /\ quote.data.distance_data.kind = "dict"
          /\ (weight <= 5 \/ value <= 0) ) =>
          /\ ~quote.returned.is_none
          /\ quote.returned.price
               = ChargedPrice(ActiveConfig, quote.data, weight_charge(ActiveConfig),
                              insurance_charge(ActiveConfig))

\* C27 witness: -3 kg with a declared value of -500 and insurance required,
\* priced by calculate_final_price at its base price
C27_Witness ==
  /\ ServiceQuoted
  /\ quote.data.weight = Num(-3)
  /\ quote.data.package_value = Num(-500)
  /\ quote.data.insurance_required
  /\ ~quote.data.signature_required
  /\ quote.data.service_type = "standard"
  /\ quote.data.distance_data.base_price = Num(200000)
  /\ quote.returned.price = 200000

(***************************************************************************)
(* BookingService.calculate_distance_matrix                                 *)
(***************************************************************************)

\* bound of the model: no call starts after this time
MaxClock == 4

\* addresses of the calls
MatrixAddresses ==
  { <<"k","u","b","w","a">>,
    <<"I","k","e","j","a",","," ","L","a","g","o","s">>,
    <<"x","y">>,
    <<>> }

\* time passes
Tick ==
  /\ clock < MaxClock
  /\ clock' = clock + 1
  /\ UNCHANGED <<store_vars, Config, pricing_configs, geocode_http, route_http, quote,
                 booking_service, matrix_call, db_sessions>>

\* a caller asks for the distance between two addresses
RequestMatrix ==
  /\ matrix_call.pc = "idle"
  /\ clock <= MaxClock
  /\ \E origin \in MatrixAddresses, destination \in MatrixAddresses,
        mode \in {"driving", "walking"} :
       matrix_call' = [MatrixIdle EXCEPT !.pc = "called", !.origin = origin,
                                         !.destination = destination,
                                         !.mode = mode]
  /\ UNCHANGED <<store_vars, Config, pricing_configs, geocode_http, route_http, quote,
                 booking_service, clock, db_sessions>>

\* BookingService.calculate_distance_matrix
calculate_distance_matrix ==
  /\ matrix_call.pc = "called"
  /\ \E env \in [origin : ApiGeocodeOutcomes, destination : ApiGeocodeOutcomes,
                 matrix : MatrixOutcomes,
                 latency : [1..3 -> Latencies]] :
     \E call \in {BookingService_calculate_distance_matrix(
                    booking_service, pricing_configs, clock,
                    matrix_call.origin, matrix_call.destination,
                    matrix_call.mode, env)} :
       /\ matrix_call' = [matrix_call EXCEPT !.pc = "done",
                                             !.result = call.result,
                                             !.sent = call.sent,
                                             !.matrix = call.matrix,
                                             !.distance_meters =
                                               call.distance_meters]
       /\ booking_service' = call.self
       /\ pricing_configs' = call.table
       /\ clock' = call.now
  /\ UNCHANGED <<store_vars, Config, geocode_http, route_http, quote, db_sessions>>

\* the result has been handed to the caller
MatrixDone ==
  /\ matrix_call.pc = "done"
  /\ matrix_call' = MatrixIdle
  /\ UNCHANGED <<store_vars, Config, pricing_configs, geocode_http, route_http, quote,
                 booking_service, clock, db_sessions>>

NextBooking == Tick \/ RequestMatrix \/ calculate_distance_matrix \/ MatrixDone

\* class Config plays no part in calculate_distance_matrix
InitBooking == Init /\ Config = ConfigDefaults

SpecBooking == InitBooking /\ [][NextBooking]_vars

(***************************************************************************)
(* Properties of the distance estimator                                     *)
(***************************************************************************)

\* the address names a place of the gazetteer
Resolvable(address) == address # <<>> /\ find_known_location(address).found

\* C9: when the routing API is not configured or its call fails, the
\* estimator still returns a route estimate for two resolvable addresses.
C9_GeometricFallback ==
  ( /\ matrix_call.pc = "done"
    /\ Resolvable(matrix_call.origin)
    /\ Resolvable(matrix_call.destination)
    /\ \/ ~booking_service.distance_matrix_api_key
       \/ matrix_call.matrix \notin {"ok", "not_sent"} )
  => matrix_call.result.success

\* the call returned an estimate
MatrixSucceeded == matrix_call.pc = "done" /\ matrix_call.result.success

\* C14: a successful route estimate has a driving distance that is at least
\* the straight-line distance, from calculate_route and from the routing
\* API alike.
C14_DrivingNotShorter ==
  /\ RouteSucceeded =>
       route_http.response.driving_distance_km
         >= route_http.response.straight_distance_km
  /\ MatrixSucceeded =>
       matrix_call.result.driving_distance_km
         >= matrix_call.result.straight_distance_km

\* C15: resolving an address of fewer than 3 characters after trimming
\* fails at once, without a result and without a request to the network,
\* in geocode_address and in BookingService.geocode_address (which
\* calculate_distance_matrix calls for the origin first).
C15_ShortAddressRejected ==
  /\ (geocode_http.pc = "responded" /\ Len(strip(geocode_http.address)) < 3) =>
       /\ ~geocode_http.result.found
       /\ geocode_http.requests = <<>>
  /\ (matrix_call.pc = "done" /\ Len(strip(matrix_call.origin)) < 3) =>
       /\ ~matrix_call.result.success
       /\ matrix_call.sent = <<>>

\* C24: any two consecutive requests one calculate_distance_matrix call
\* sends through the BookingService instance (the two geocoding requests and
\* the distance-matrix request) are at least 0.1 s apart.
C24_RequestsThrottled ==
  \A i \in 1..(Len(matrix_call.sent) - 1) :
     matrix_call.sent[i + 1].at - matrix_call.sent[i].at >= RateLimitTicks

(***************************************************************************)
(* PricingConfig.get_current run by several request threads, each with its *)
(* own database session                                                     *)
(***************************************************************************)

\* the rows of the table that are active
ActiveRows(table) == {i \in 1..Len(table) : table[i].is_active}

\* cls.query.filter_by(is_active=True).first() of thread c
get_current_query(c) ==
  /\ db_sessions[c].pc = "idle"
  /\ \E caller \in GetCurrentCallers :
       LET active == ActiveRows(pricing_configs)
       IN db_sessions' =
            [db_sessions EXCEPT
               ![c] = IF active # {}
                      THEN [pc |-> "returned",
                            config |-> pricing_configs[
                              CHOOSE i \in active : \A j \in active : i <= j].values,
                            caller |-> caller]
                      ELSE [pc |-> "creating", config |-> None,
                            caller |-> caller]]
  /\ UNCHANGED <<store_vars, Config, pricing_configs, geocode_http, route_http, quote,
                 booking_service, clock, matrix_call>>

\* config = cls(); db.session.add(config); db.session.commit() of thread c
get_current_commit(c) ==
  /\ db_sessions[c].pc = "creating"
  /\ pricing_configs' =
       Append(pricing_configs,
              pricing_row(Len(pricing_configs) + 1, TRUE, PricingConfigDefaults))
  /\ db_sessions' = [db_sessions EXCEPT
                       ![c] = [db_sessions[c] EXCEPT
                                 !.pc = "returned",
                                 !.config = PricingConfigDefaults]]
  /\ UNCHANGED <<store_vars, Config, geocode_http, route_http, quote,
                 booking_service, clock, matrix_call>>

\* thread c has its config and computes its price
get_current_return(c) ==
  /\ db_sessions[c].pc = "returned"
  /\ db_sessions' = [db_sessions EXCEPT ![c] = SessionIdle]
  /\ UNCHANGED <<store_vars, Config, pricing_configs, geocode_http, route_http, quote,
                 booking_service, clock, matrix_call>>

NextSessions ==
  \E c \in Callers :
     get_current_query(c) \/ get_current_commit(c) \/ get_current_return(c)

InitSessions ==
  /\ Init
  /\ Config = ConfigDefaults
  /\ booking_service.distance_matrix_api_key
  /\ booking_service.geocoding_api_key

SpecSessions == InitSessions /\ [][NextSessions]_vars

\* C13: at most one config is active, and exactly one once a thread has got
\* its config for a price.
C13_OneActiveConfig ==
  /\ Cardinality(ActiveRows(pricing_configs)) <= 1
  /\ (\E c \in Callers : db_sessions[c].pc = "returned") =>
       Cardinality(ActiveRows(pricing_configs)) = 1

(***************************************************************************)
(* The two sources of a base price: /api/calculate-route and                *)
(* BookingService.calculate_distance_matrix, one request at a time          *)
(***************************************************************************)

\* the two share no state: the routes are served before the service's first
\* request to its API goes out
NextBasePrice ==
  \/ (matrix_call.pc = "idle" /\ booking_service.last_api_call = 0 /\ NextRoute)
  \/ (route_http.pc = "idle"
        /\ (RequestMatrix \/ calculate_distance_matrix \/ MatrixDone))

InitBasePrice ==
  /\ Init
  /\ booking_service.distance_matrix_api_key
  /\ booking_service.geocoding_api_key

SpecBasePrice == InitBasePrice /\ [][NextBasePrice]_vars

MaxConfigChanges == 1

\* the table after the operator made a row with values the active one:
\* the rows that were active are deactivated and the new row is stored
activate_pricing_config(table, values) ==
  Append([i \in 1..Len(table) |-> [table[i] EXCEPT !.is_active = FALSE]],
         pricing_row(Len(table) + 1, TRUE, values))

\* the operator changes the active config to other values
change_active_config ==
  /\ config_changes < MaxConfigChanges
  /\ \E values \in ConfigValues :
       /\ \A i \in ActiveRows(pricing_configs) : pricing_configs[i].values # values
       /\ pricing_configs' = activate_pricing_config(pricing_configs, values)
  /\ config_changes' = config_changes + 1
  /\ UNCHANGED <<Config, geocode_http, route_http, quote, booking_service,
                 clock, matrix_call, db_sessions, bookings, tracking_updates,
                 create_call>>

\* prices are computed one at a time; the operator changes the config
\* between two computations or before a received request is computed
NextTariffChange ==
  \/ NextTariff
  \/ (quote.pc # "done" /\ change_active_config)

\* the application starts with the same values in class Config and in the
\* active row of the table
InitTariffChange ==
  /\ InitTariff
  /\ Config = ConfigDefaults
  /\ pricing_configs = <<pricing_row(1, FALSE, OtherTariff),
                         pricing_row(2, TRUE, ConfigDefaults)>>

SpecTariffChange == InitTariffChange /\ [][NextTariffChange]_vars

\* C21: once the active config was changed, every price computed afterwards
\* is the price under the new values, at both entry points.
C21_QuotesFollowChange ==
  config_changes > 0 =>
     /\ ApiQuoted =>
          quote.response.final_price = TariffFormula(ActiveConfig, quote.data)
     /\ ServiceQuoted =>
          quote.returned.price = TariffFormula(ActiveConfig, quote.data)

(***************************************************************************)
(* Bookings: BookingService.create_booking and the /book-delivery route.    *)
(* Amounts are in 1/100 naira.                                              *)
(***************************************************************************)

\* bound of the model: the rows of table bookings
MaxBookings == 2

\* the data create_booking is called with
BookingData ==
  [pickup_address : {<<"k","u","b","w","a">>, <<>>},
   delivery_address : {<<"I","k","e","j","a",","," ","L","a","g","o","s">>},
   weight : {5, 25},
   package_value : {10000},
   service_type : {"standard", "express"},
   insurance_required : {FALSE},
   signature_required : {FALSE}]

\* what the requests of create_booking's distance estimate get
BookingEnvs ==
  [origin : {[kind |-> "ok", place |-> [lat |-> 91167, lng |-> 73833]]},
   destination : {[kind |-> "ok", place |-> [lat |-> 66018, lng |-> 33515]],
                  [kind |-> "zero_results", place |-> [lat |-> 0, lng |-> 0]]},
   matrix : {[kind |-> "ok", distance |-> 450, duration |-> 1800],
             [kind |-> "ok", distance |-> 12345, duration |-> 1800],
             [kind |-> "exception", distance |-> 0, duration |-> 0]},
   latency : {[i \in 1..3 |-> 0], [i \in 1..3 |-> 2]}]

\* the minimum price of the config in force: of the active row, or of the
\* row get_current would store
minimum_price_in_force(table) ==
  LET active == ActiveRows(table)
  IN IF active = {} THEN PricingConfigDefaults.minimum_price
     ELSE table[CHOOSE i \in active : \A j \in active : i <= j].values.minimum_price

\* a row of table bookings; distance_meters (the provider's distance behind
\* base_price) and minimum_price (the minimum price in force when the row
\* was stored) are kept for the properties
booking_row(via, amount, has_distance_data, base_price, distance_meters, data, minimum_price) ==
  [via |-> via, status |-> "pending", amount |-> amount,
   has_distance_data |-> has_distance_data, base_price |-> base_price,
   distance_meters |-> distance_meters,
   weight |-> data.weight, package_value |-> data.package_value,
   service_type |-> data.service_type,
   insurance_required |-> data.insurance_required,
   signature_required |-> data.signature_required,
   minimum_price |-> minimum_price]

\* create_booking: pricing_config = PricingConfig.get_current()
create_booking_begin ==
  /\ create_call.pc = "idle"
  /\ Len(bookings) < MaxBookings
  /\ \E data \in BookingData :
     \E current \in {get_current(pricing_configs)} :
       /\ create_call' = [CreateIdle EXCEPT !.pc = "config_read",
                                            !.data = data,
                                            !.pricing_config = current.config]
       /\ pricing_configs' = current.table
  /\ UNCHANGED <<Config, geocode_http, route_http, quote, booking_service,
                 clock, matrix_call, db_sessions, config_changes, bookings,
                 tracking_updates>>

\* create_booking: distance_data = self.calculate_distance_matrix(...) when
\* both addresses are given
create_booking_distance ==
  /\ create_call.pc = "config_read"
  /\ IF create_call.data.pickup_address # <<>>
          /\ create_call.data.delivery_address # <<>>
     THEN \E env \in BookingEnvs :
          \E call \in {BookingService_calculate_distance_matrix(
                         booking_service, pricing_configs, clock,
                         create_call.data.pickup_address,
                         create_call.data.delivery_address,
                         "driving", env)} :
            /\ create_call' = [create_call EXCEPT
                                 !.pc = "distance_done",
                                 !.distance_data = call.result,
                                 !.distance_meters = call.distance_meters]
            /\ booking_service' = call.self
            /\ pricing_configs' = call.table
            /\ clock' = call.now
     ELSE /\ create_call' = [create_call EXCEPT !.pc = "distance_done"]
          /\ UNCHANGED <<booking_service, pricing_configs, clock>>
  /\ UNCHANGED <<Config, geocode_http, route_http, quote, matrix_call,
                 db_sessions, config_changes, bookings, tracking_updates>>

\* create_booking: the amount, from calculate_final_price or the minimum
\* price of the config read at the start, and the commit of the booking
create_booking_commit ==
  /\ create_call.pc = "distance_done"
  /\ LET data == create_call.data
         distance_data == create_call.distance_data
     IN IF distance_data.success
        THEN \E current \in {get_current(pricing_configs)} :
               /\ pricing_configs' = current.table
               /\ bookings' =
                    Append(bookings,
                           booking_row("create_booking",
                                       final_price_chain(current.config,
                                                         distance_data.base_price,
                                                         data.weight,
                                                         data.package_value,
                                                         data.service_type,
                                                         data.insurance_required,
                                                         data.signature_required),
                                       TRUE, distance_data.base_price,
                                       create_call.distance_meters, data,
                                       minimum_price_in_force(current.table)))
        ELSE /\ UNCHANGED pricing_configs
             /\ bookings' =
                  Append(bookings,
                         booking_row("create_booking",
                                     create_call.pricing_config.minimum_price,
                                     FALSE, 0, 0, data,
                                     minimum_price_in_force(pricing_configs)))
  /\ create_call' = CreateIdle
  /\ UNCHANGED <<Config, geocode_http, route_http, quote, booking_service,
                 clock, matrix_call, db_sessions, config_changes,
                 tracking_updates>>

\* the forms a logged-in client posts to /book-delivery; the required
\* fields other than pickup_address and weight are filled in
BookingForms ==
  [pickup_address : {<<"k","u","b","w","a">>, <<" ">>},
   weight : {Num(5), NotANumber},
   amount : {Missing, Num(100), Num(123456)}]

\* book_delivery, POST
book_delivery ==
  /\ Len(bookings) < MaxBookings
  /\ \E form \in BookingForms :
       IF strip(form.pickup_address) = <<>>
       THEN UNCHANGED bookings
       ELSE bookings' =
              Append(bookings,
                     booking_row("book_delivery",
                                 safe_float(form.amount, 0),
                                 FALSE, 0, 0,
                                 [weight |-> safe_float(form.weight, 0),
                                  package_value |-> 0,
                                  service_type |-> "none",
                                  insurance_required |-> FALSE,
                                  signature_required |-> FALSE],
                                 minimum_price_in_force(pricing_configs)))
  /\ UNCHANGED <<Config, pricing_configs, geocode_http, route_http, quote,
                 booking_service, clock, matrix_call, db_sessions,
                 config_changes, tracking_updates, create_call>>

NextCreateBooking ==
  \/ create_booking_begin
  \/ create_booking_distance
  \/ create_booking_commit
  \/ book_delivery
  \/ change_active_config

InitCreateBooking ==
  /\ Init
  /\ Config = ConfigDefaults
  /\ booking_service.distance_matrix_api_key
  /\ booking_service.geocoding_api_key

SpecCreateBooking == InitCreateBooking /\ [][NextCreateBooking]_vars

\* C28: every stored booking has an amount of at least the minimum price in
\* force when it was stored, whichever route stored it.
C28_AmountAtLeastMinimum ==
  \A i \in 1..Len(bookings) : bookings[i].amount >= bookings[i].minimum_price

\* the tariffs a config may hold
KnownTariffs == ConfigValues \cup {PricingConfigDefaults}

\* the request body that asks for the price of booking b
BodyOf(b) ==
  [distance_data |-> [kind |-> "dict", base_price |-> Num(b.base_price)],
   weight |-> Num(b.weight), package_value |-> Num(b.package_value),
   service_type |-> b.service_type,
   insurance_required |-> b.insurance_required,
   signature_required |-> b.signature_required]

\* C29: the amounts of a booking stored by create_booking come from one
\* config: there is a config that gives both its base price (from the
\* provider's distance) and its amount (from that base price), or, without
\* distance data, its amount as minimum price.
C29_OneConfigPerBooking ==
  \A i \in 1..Len(bookings) :
     LET b == bookings[i]
     IN b.via = "create_booking" =>
          \E c \in KnownTariffs :
             IF b.has_distance_data
             THEN /\ b.base_price
                       = round_div(Max(b.distance_meters * c.price_per_km,
                                       c.minimum_price * 1000), 1000)
                  /\ b.amount = TariffFormula(c, BodyOf(b))
             ELSE b.amount = c.minimum_price

(***************************************************************************)
(* Status and tracking: BookingService.update_tracking, the admin route     *)
(* /booking/<booking_id>/update-status and                                  *)
(* TrackingService.add_tracking_update.  The id of a booking is its place   *)
(* in the table.                                                            *)
(***************************************************************************)

\* bound of the model: the rows of table tracking_updates
MaxTrackingUpdates == 2

Statuses == {"confirmed", "in_transit", "delivered"}

\* the ids the operations are called with; an id above the number of rows
\* is the id of no booking
BookingIds == 1..(MaxBookings + 1)

\* Booking.query.get(booking_id) finds a row
booking_exists(booking_id) == booking_id \in 1..Len(bookings)

\* a row of table tracking_updates
tracking_row(booking_id, status) == [booking_id |-> booking_id, status |-> status]

\* BookingService.update_tracking
update_tracking ==
  /\ Len(tracking_updates) < MaxTrackingUpdates
  /\ \E booking_id \in BookingIds, status \in Statuses :
       IF ~booking_exists(booking_id)
       THEN UNCHANGED <<bookings, tracking_updates>>
       ELSE /\ bookings' = [bookings EXCEPT ![booking_id].status = status]
            /\ tracking_updates' =
                 Append(tracking_updates, tracking_row(booking_id, status))
  /\ UNCHANGED <<Config, pricing_configs, geocode_http, route_http, quote,
                 booking_service, clock, matrix_call, db_sessions,
                 config_changes, create_call>>

\* the JSON bodies posted to the admin route: a status, and a location and
\* a description or not
StatusBodies == [status : Statuses \cup {AbsentKey}, location_and_description : BOOLEAN]

\* update_booking_status of admin.py
update_booking_status ==
  /\ Len(tracking_updates) < MaxTrackingUpdates
  /\ \E is_admin \in BOOLEAN, booking_id \in BookingIds, data \in StatusBodies :
       IF ~is_admin \/ ~booking_exists(booking_id) \/ data.status = AbsentKey
       THEN UNCHANGED <<bookings, tracking_updates>>
       ELSE /\ bookings' = [bookings EXCEPT ![booking_id].status = data.status]
            /\ tracking_updates' =
                 IF data.location_and_description
                 THEN Append(tracking_updates,
                             tracking_row(booking_id, data.status))
                 ELSE tracking_updates
  /\ UNCHANGED <<Config, pricing_configs, geocode_http, route_http, quote,
                 booking_service, clock, matrix_call, db_sessions,
                 config_changes, create_call>>

\* TrackingService.add_tracking_update; for the id of no booking the commit
\* stores the row or fails, as the database enforces the foreign key or not
add_tracking_update ==
  /\ Len(tracking_updates) < MaxTrackingUpdates
  /\ \E booking_id \in BookingIds, status \in Statuses, foreign_keys \in BOOLEAN :
       IF ~booking_exists(booking_id) /\ foreign_keys
       THEN UNCHANGED tracking_updates
       ELSE tracking_updates' =
              Append(tracking_updates, tracking_row(booking_id, status))
  /\ UNCHANGED <<Config, pricing_configs, geocode_http, route_http, quote,
                 booking_service, clock, matrix_call, db_sessions,
                 config_changes, bookings, create_call>>

NextTracking ==
  \/ book_delivery
  \/ update_tracking
  \/ update_booking_status
  \/ add_tracking_update

InitTracking == InitSessions /\ pricing_configs = <<>>

SpecTracking == InitTracking /\ [][NextTracking]_vars

\* the places in tracking_updates of the updates of booking booking_id
UpdatesOf(booking_id) ==
  {k \in 1..Len(tracking_updates) : tracking_updates[k].booking_id = booking_id}

\* C30: a booking with at least one tracking update has the status of its
\* most recent tracking update.
C30_StatusIsLatestUpdate ==
  \A booking_id \in 1..Len(bookings) :
     UpdatesOf(booking_id) # {} =>
        LET latest == CHOOSE k \in UpdatesOf(booking_id) :
                        \A j \in UpdatesOf(booking_id) : j <= k
        IN bookings[booking_id].status = tracking_updates[latest].status
=============================================================================
